---------------------------- MODULE Spec2Model ----------------------------
(***************************************************************************)
(* The LSP multiplexer of simpletor: LSPManager (one engine per language   *)
(* server child process: request ids, the responseHandlers table, the      *)
(* reader goroutine) and MultiLSPManager (the registry that maps a         *)
(* language tag to an engine and routes requests by document URI).         *)
(*                                                                         *)
(* Callers are the WebSocket session goroutines; each runs one registry    *)
(* call at a time.  A lock region of the code is one action.               *)
(***************************************************************************)
EXTENDS Integers, Sequences, FiniteSets, TLC

\* ------------------------------------------------------------------ bounds
MaxCalls   == 3      \* registry calls (StartLSP, Route...) the sessions make over a run
MaxNotifyCalls == 2  \* registry calls over a run of the notification path
MaxNotifs  == 1      \* notifications the children emit over a run
MaxLen     == 3      \* bytes in the session's mirror
MaxGatewayCalls == 2 \* registry calls over a run of the gateway
MaxEmitted == 3      \* notifications the children emit over a run of the forwarders
MaxFlood == 101      \* notifications one child emits over a run that fills the channels
MaxWriteCalls == 3   \* registry calls over a run of the write path
MaxHeaderLines == 3  \* header lines in one block of a child's output
MaxPathLen == 4      \* characters in a path given to language detection
MaxBodyLen == 2      \* bytes in a frame body, one long body apart
MaxFrames == 2       \* frames written to one stdout
PipeCap == 1         \* frames a stdout pipe holds
MaxInbox == 2        \* messages a client sends

\* At most one engine is spawned and one id allocated per call.
MaxEngines == MaxCalls
MaxId      == MaxCalls

\* make(chan json.RawMessage, 100): part_001 31 and multi_lsp.go 30.
NotifCap   == 100

Procs   == {"s1", "s2"}      \* the session goroutines, one call each at a time
Engines == 1..MaxEngines
Langs   == {"cpp", "python"}
\* The keys m.lspServers may hold: the two languages detection yields, and
\* any other tag a client configures with an explicit server path.
Tags    == Langs \cup {"rust"}
NoEngine == 0
NoId     == -1

\* ------------------------------------------------------------------ strings
\* A Go string is a sequence of one-character strings.
HasPrefix(s, pre) ==
    /\ Len(s) >= Len(pre)
    /\ SubSeq(s, 1, Len(pre)) = pre

HasSuffix(s, suf) ==
    /\ Len(s) >= Len(suf)
    /\ SubSeq(s, Len(s) - Len(suf) + 1, Len(s)) = suf

TrimPrefix(s, pre) ==
    IF HasPrefix(s, pre) THEN SubSeq(s, Len(pre) + 1, Len(s)) ELSE s

FileScheme == <<"f", "i", "l", "e", ":", "/", "/">>

\* Faulty variant of detectLanguageForLSP: the header extensions are left
\* out.
detectLanguageForLSPNoHeaders(path) ==
    IF HasSuffix(path, <<".", "p", "y">>) THEN "python"
    ELSE IF \/ HasSuffix(path, <<".", "c", "p", "p">>)
            \/ HasSuffix(path, <<".", "c", "c">>)
            \/ HasSuffix(path, <<".", "c", "x", "x">>)
            \/ HasSuffix(path, <<".", "c">>)
         THEN "cpp"
    ELSE ""

\* multi_lsp.go detectLanguageForLSP; "" is the empty sequence <<>> here.
detectLanguageForLSP(path) ==
    IF HasSuffix(path, <<".", "p", "y">>) THEN "python"
    ELSE IF \/ HasSuffix(path, <<".", "c", "p", "p">>)
            \/ HasSuffix(path, <<".", "c", "c">>)
            \/ HasSuffix(path, <<".", "c", "x", "x">>)
            \/ HasSuffix(path, <<".", "c">>)
            \/ HasSuffix(path, <<".", "h">>)
            \/ HasSuffix(path, <<".", "h", "p", "p">>)
         THEN "cpp"
    ELSE ""

\* The paths detection is tried on: all strings up to MaxPathLen over the
\* characters of the extensions it knows.
PathChars == {".", "c", "h", "p", "x", "y"}
BoundedPaths == UNION {[1..n -> PathChars] : n \in 0..MaxPathLen}

\* ------------------------------------------------------------------ params
\* The decoded JSON params of a routed call, as far as routing reads them:
\* whether params is a map, whether textDocument is a map in it, whether uri
\* is a string in that, and the uri.
UriPy   == FileScheme \o <<"/", "a", ".", "p", "y">>
UriH    == <<"b", ".", "h">>
UriTxt  == FileScheme \o <<"/", "a", ".", "t", "x", "t">>

MkParams(isMap, hasDoc, hasUri, uri) ==
    [isMap |-> isMap, hasTextDocument |-> hasDoc, hasUri |-> hasUri, uri |-> uri]

ParamsSet ==
    { MkParams(FALSE, FALSE, FALSE, <<>>),
      MkParams(TRUE, FALSE, FALSE, <<>>),
      MkParams(TRUE, TRUE, FALSE, <<>>),
      MkParams(TRUE, TRUE, TRUE, UriPy),
      MkParams(TRUE, TRUE, TRUE, UriH),
      MkParams(TRUE, TRUE, TRUE, UriTxt) }

NoParams == MkParams(FALSE, FALSE, FALSE, <<>>)

Err(kind) == [err |-> kind]

\* Faulty variant of extractLanguageFromParams: the uri's type assertion is not
\* checked, so a missing uri is read as the empty string.
extractLanguageFromParamsUnchecked(params) ==
    IF ~params.isMap THEN Err("BadParams")
    ELSE IF ~params.hasTextDocument THEN Err("BadParams")
    ELSE LET filePath == TrimPrefix(params.uri, FileScheme)
             language == detectLanguageForLSP(filePath)
         IN  IF language = "" THEN Err("UnknownLanguage")
             ELSE [language |-> language]

\* multi_lsp.go extractLanguageFromParams: the language, or the error.
extractLanguageFromParams(params) ==
    IF ~params.isMap THEN Err("BadParams")
    ELSE IF ~params.hasTextDocument THEN Err("BadParams")
    ELSE IF ~params.hasUri THEN Err("BadParams")
    ELSE LET filePath == TrimPrefix(params.uri, FileScheme)
             language == detectLanguageForLSP(filePath)
         IN  IF language = "" THEN Err("UnknownLanguage")
             ELSE [language |-> language]

\* ------------------------------------------------------------------ frames
\* A frame the child writes to its stdout, as far as readMessages parses it:
\* the id (NoId when absent) and whether method is non-empty.
Frames == [id : (0..MaxId) \cup {NoId}, method : BOOLEAN]

\* The reader holds no frame.
NoFrame == [none |-> TRUE]

VARIABLES
    lspServers,        \* MultiLSPManager.lspServers: language -> engine
    spawned,           \* number of engines created by StartLSP so far
    lang,              \* the language each engine was started for
    running,           \* LSPManager.running
    alive,             \* the child process is up and its stdout is open
    reader,            \* the readMessages goroutine: "none", "reading", "ended"
    messageID,         \* LSPManager.messageID
    responseHandlers,  \* LSPManager.responseHandlers: id -> the caller's channel
    notificationChan,  \* LSPManager.notificationChan: [buf, closed]
    mergedChan,        \* MultiLSPManager.notificationChan: [buf, closed]
    stdin,             \* the frame last written to the child's stdin
    pc,                \* where each session goroutine is inside its call
    op,                \* the call: "request", "notification" or "none"
    eng,               \* the engine the call looked up
    id,                \* the id SendRequest allocated
    params,            \* the params of the call
    chan,              \* the call's responseChan (buffer of one)
    ret,               \* what the call returns, once it has returned
    allocated,         \* history: ids allocated by each engine, in order
    resolved,          \* history: ids answered by the reader or failed in SendRequest
    removals,          \* history: id -> times its table entry was removed
    discards,          \* history: the reader dropped a frame with an unmatched id
    notified,          \* history: notifications read from the children so far
    calls,             \* history: registry calls made so far
    currentFile,       \* HandleWebSocket's currentFile, per session
    currentContent,    \* HandleWebSocket's currentContent, per session
    files,             \* the file system: path -> content
    handler,           \* the client message the dispatch loop is handling
    out,               \* messages written to the client for that message
    routed,            \* arguments of the Route calls made for that message
    expected,          \* history: the opened content with the splices applied
    ndeltas,           \* history: splices applied since open_file
    lengthDue,         \* history: opened length + inserted - deleted since open_file
    verdict,           \* history: how the specification rates the message last read
    mu,                \* LSPManager.mu: the caller that holds it inside writeMessage
    wire,              \* the pieces written to each child's stdin, in order
    wpos,              \* how far each caller's writeMessage has got
    contentLength,     \* readMessages' contentLength, per engine
    rpos,              \* where each reader is in a frame: "header" or "body"
    block,             \* history: the header lines read of the block in hand
    conn,              \* each session's WebSocket: "open", "closed" or "ended"
    process,           \* the server process: "serving" until it terminates
    stdout,            \* bytes each child has written that its reader has not read
    encoded,           \* history: the bodies framed onto each stdout
    decoded,           \* history: the bodies each reader has taken off it
    stdinFull,         \* the stdin pipe of each child is full
    pipeOut,           \* frames in each child's stdout pipe, not yet read
    hand,              \* the frame each reader has read and not dispatched
    writers,           \* the tasks inside c.WriteJSON on each session's socket
    fwd,               \* each session's notification goroutine: "running", "returned"
    lost,              \* history: notifications taken and written to no client
    inbox              \* each client's messages: the number sent, those not yet read

engineVars == <<lang, running, alive, reader, messageID, responseHandlers,
                notificationChan, stdin>>
procVars   == <<pc, op, eng, id, params, chan, ret>>
histVars   == <<allocated, resolved, removals, discards, notified, calls>>
sessVars   == <<currentFile, currentContent, files, handler, out, routed,
                expected, ndeltas, lengthDue, verdict>>
coreVars   == <<lspServers, spawned, mergedChan, engineVars, procVars, histVars>>
codecVars  == <<stdout, encoded, decoded>>
pipeVars   == <<stdinFull, pipeOut, hand>>
sockVars   == <<writers, fwd, lost, inbox>>
hostVars   == <<mu, wire, wpos, contentLength, rpos, block, conn, process,
                codecVars, pipeVars, sockVars>>
vars == <<coreVars, sessVars, hostVars>>

\* ------------------------------------------------------------------ helpers
NoRet   == [none |-> TRUE]
NoMessage == [kind |-> "none", id |-> NoId, uri |-> <<>>]
NewChan == [buf |-> <<>>, closed |-> FALSE]
Free    == "free"

IsErr(r)      == "err" \in DOMAIN r
IsResponse(r) == "ok" \in DOMAIN r

Spawned == 1..spawned

RECURSIVE SumLen(_, _)
SumLen(f, S) ==
    IF S = {} THEN 0
    ELSE LET x == CHOOSE y \in S : TRUE IN Len(f[x]) + SumLen(f, S \ {x})

\* Ids allocated so far by all engines.
TotalAllocated == SumLen(allocated, Engines)

\* Go map assignment m[k] = v and delete(m, k), on a function.
MapPut(m, k, v) == [x \in DOMAIN m \cup {k} |-> IF x = k THEN v ELSE m[x]]
MapDelete(m, k) == [x \in DOMAIN m \ {k} |-> m[x]]

\* Faulty variant of TrySend: a full queue makes room by giving up its oldest
\* frame.
TrySendEvict(ch, v) ==
    IF Len(ch.buf) < NotifCap THEN [ch EXCEPT !.buf = Append(@, v)]
    ELSE [ch EXCEPT !.buf = Append(Tail(@), v)]

\* Faulty variant of TrySend: the frame goes to the front of the queue.
TrySendFront(ch, v) ==
    IF Len(ch.buf) < NotifCap THEN [ch EXCEPT !.buf = <<v>> \o @] ELSE ch

\* Non-blocking send: select { case ch <- v: default: }.
TrySend(ch, v) ==
    IF Len(ch.buf) < NotifCap THEN [ch EXCEPT !.buf = Append(@, v)] ELSE ch

\* The files open_file may read: websocket.go 386.
PathPy    == <<"/", "a", ".", "p", "y">>
PathH     == <<"b", ".", "h">>
PathShort == <<"c">>
Paths     == {PathPy, PathH, PathShort}
InitFiles == [f \in Paths |-> IF f = PathPy THEN <<"a", "b">> ELSE <<"c">>]

\* No client message is being handled (the loop is at c.ReadJSON): the
\* message's type, its lsp_request id, its configure_lsp language, and how
\* far configure_lsp has got.
NoHandler == [type |-> "none", id |-> 0, language |-> "", stage |-> "none"]

Init ==
    /\ lspServers = [l \in Tags |-> NoEngine]
    /\ spawned = 0
    /\ mergedChan = NewChan
    /\ lang = [e \in Engines |-> ""]
    /\ running = [e \in Engines |-> FALSE]
    /\ alive = [e \in Engines |-> FALSE]
    /\ reader = [e \in Engines |-> "none"]
    /\ messageID = [e \in Engines |-> 0]
    /\ responseHandlers = [e \in Engines |-> <<>>]
    /\ notificationChan = [e \in Engines |-> NewChan]
    /\ stdin = [e \in Engines |-> NoMessage]
    /\ pc = [p \in Procs |-> "idle"]
    /\ op = [p \in Procs |-> "none"]
    /\ eng = [p \in Procs |-> NoEngine]
    /\ id = [p \in Procs |-> NoId]
    /\ params = [p \in Procs |-> NoParams]
    /\ chan = [p \in Procs |-> <<>>]
    /\ ret = [p \in Procs |-> NoRet]
    /\ allocated = [e \in Engines |-> <<>>]
    /\ resolved = [e \in Engines |-> {}]
    /\ removals = [e \in Engines |-> [k \in 0..MaxId |-> 0]]
    /\ discards = FALSE
    /\ notified = 0
    /\ calls = 0
    /\ currentFile = [p \in Procs |-> <<>>]
    /\ currentContent = [p \in Procs |-> <<>>]
    /\ files = InitFiles
    /\ handler = [p \in Procs |-> NoHandler]
    /\ out = [p \in Procs |-> <<>>]
    /\ routed = [p \in Procs |-> <<>>]
    /\ expected = [p \in Procs |-> <<>>]
    /\ ndeltas = [p \in Procs |-> 0]
    /\ lengthDue = [p \in Procs |-> 0]
    /\ verdict = [p \in Procs |-> "none"]
    /\ mu = [e \in Engines |-> Free]
    /\ wire = [e \in Engines |-> <<>>]
    /\ wpos = [p \in Procs |-> "none"]
    /\ contentLength = [e \in Engines |-> 0]
    /\ rpos = [e \in Engines |-> "header"]
    /\ block = [e \in Engines |-> <<>>]
    /\ conn = [p \in Procs |-> "open"]
    /\ process = "serving"
    /\ stdout = [e \in Engines |-> <<>>]
    /\ encoded = [e \in Engines |-> <<>>]
    /\ decoded = [e \in Engines |-> <<>>]
    /\ stdinFull = [e \in Engines |-> FALSE]
    /\ pipeOut = [e \in Engines |-> 0]
    /\ hand = [e \in Engines |-> NoFrame]
    /\ writers = [p \in Procs |-> {}]
    /\ fwd = [p \in Procs |-> "running"]
    /\ lost = 0
    /\ inbox = [p \in Procs |-> [sent |-> 0, queue |-> <<>>]]

\* The call of p returns r to the session's handler: the call's locals and
\* its responseChan are gone.
Return(p, r) ==
    /\ pc' = [pc EXCEPT ![p] = "returned"]
    /\ ret' = [ret EXCEPT ![p] = r]
    /\ eng' = [eng EXCEPT ![p] = NoEngine]
    /\ id' = [id EXCEPT ![p] = NoId]
    /\ params' = [params EXCEPT ![p] = NoParams]
    /\ chan' = [chan EXCEPT ![p] = <<>>]

\* The handler is through with the call's result and reads the next message
\* (websocket.go 367-372).
Done(p) ==
    /\ pc[p] = "returned"
    /\ pc' = [pc EXCEPT ![p] = "idle"]
    /\ op' = [op EXCEPT ![p] = "none"]
    /\ ret' = [ret EXCEPT ![p] = NoRet]
    /\ UNCHANGED <<lspServers, spawned, mergedChan, engineVars, eng, id, params,
                   chan, histVars>>

\* --------------------------------------------------------- MultiLSPManager
\* Faulty variant of ShutdownOnStart: the previous engine is not shut down.
ShutdownOnStartNone(language) == {}

\* StartLSP, multi_lsp.go 40-44: the engines shut down before the new spawn.
ShutdownOnStart(language) ==
    IF lspServers[language] # NoEngine THEN {lspServers[language]} ELSE {}

\* LSPManager.shutdown (part_001 82-88) on each engine of S: Kill and Wait
\* when running, then running = false.
AliveAfterShutdown(S) ==
    [e \in Engines |-> IF e \in S /\ running[e] THEN FALSE ELSE alive[e]]

RunningAfterShutdown(S) ==
    [e \in Engines |-> IF e \in S THEN FALSE ELSE running[e]]

\* StartLSP(language, ...), multi_lsp.go 36-59, under m.mu; ok is whether
\* cmd.Start() succeeds.  The caller is a session handling configure_lsp.
StartLSP(p, language, ok) ==
    /\ pc[p] = "idle"
    /\ calls < MaxCalls
    /\ calls' = calls + 1
    /\ LET old == ShutdownOnStart(language)
           new == spawned + 1
       IN  IF ok
           THEN /\ alive' = [AliveAfterShutdown(old) EXCEPT ![new] = TRUE]
                /\ running' = [RunningAfterShutdown(old) EXCEPT ![new] = TRUE]
                /\ spawned' = new
                /\ lang' = [lang EXCEPT ![new] = language]
                /\ reader' = [reader EXCEPT ![new] = "reading"]
                /\ lspServers' = [lspServers EXCEPT ![language] = new]
           ELSE /\ alive' = AliveAfterShutdown(old)
                /\ running' = RunningAfterShutdown(old)
                /\ UNCHANGED <<spawned, lang, reader, lspServers>>
    /\ UNCHANGED <<mergedChan, messageID, responseHandlers, notificationChan,
                   stdin, procVars, allocated, resolved, removals, discards,
                   notified>>

\* Faulty variant of ShutdownAll: the engines are shut down and the map is
\* kept.
ShutdownAllKeepsMap ==
    /\ \E l \in Tags : lspServers[l] # NoEngine
    /\ LET all == {lspServers[l] : l \in Tags} \ {NoEngine}
       IN  /\ alive' = AliveAfterShutdown(all)
           /\ running' = RunningAfterShutdown(all)
    /\ UNCHANGED <<lspServers, spawned, mergedChan, lang, reader, messageID,
                   responseHandlers, notificationChan, stdin, procVars, histVars>>

\* ShutdownAll, multi_lsp.go 212-222.
ShutdownAll ==
    /\ \E l \in Tags : lspServers[l] # NoEngine
    /\ LET all == {lspServers[l] : l \in Tags} \ {NoEngine}
       IN  /\ alive' = AliveAfterShutdown(all)
           /\ running' = RunningAfterShutdown(all)
    /\ lspServers' = [l \in Tags |-> NoEngine]
    /\ UNCHANGED <<spawned, mergedChan, lang, reader, messageID, responseHandlers,
                   notificationChan, stdin, procVars, histVars>>

\* Faulty variant of Lookup: the language is ignored and some registered engine is
\* taken.
LookupAny(language) ==
    IF \E l \in Langs : lspServers[l] # NoEngine
    THEN lspServers[CHOOSE l \in Langs : lspServers[l] # NoEngine]
    ELSE NoEngine

\* m.lspServers[language] under RLock, multi_lsp.go 104-110 and 117-123.
Lookup(language) == lspServers[language]

\* RouteRequest and RouteNotification, multi_lsp.go 130-147, up to the call
\* of lsp.SendRequest or lsp.SendNotification; kind names which.
Route(p, kind, prm) ==
    /\ pc[p] = "idle"
    /\ calls < MaxCalls
    /\ calls' = calls + 1
    /\ op' = [op EXCEPT ![p] = kind]
    /\ LET r == extractLanguageFromParams(prm)
       IN  IF IsErr(r)
           THEN Return(p, r)
           ELSE IF Lookup(r.language) = NoEngine
           THEN Return(p, Err("NoEngine"))
           ELSE /\ pc' = [pc EXCEPT ![p] = IF kind = "request" THEN "req_lock"
                                            ELSE "ntf_write"]
                /\ eng' = [eng EXCEPT ![p] = Lookup(r.language)]
                /\ params' = [params EXCEPT ![p] = prm]
                /\ UNCHANGED <<id, chan, ret>>
    /\ UNCHANGED <<lspServers, spawned, mergedChan, engineVars, allocated,
                   resolved, removals, discards, notified>>

RouteRequest(p, prm) == Route(p, "request", prm)

RouteNotification(p, prm) == Route(p, "notification", prm)

\* -------------------------------------------------------------- LSPManager
\* Faulty variant of NotRunning: SendRequest does not check lsp.running.
NotRunningUnchecked(e) == FALSE

\* SendRequest's check, part_001 100-103.
NotRunning(e) == ~running[e]

\* Faulty variant of NextId: the increment is lost.
NextIdStuck(m) == m

\* lsp.messageID++; id := lsp.messageID, part_001 105-106.
NextId(m) == m + 1

\* SendRequest, part_001 99-109: the first lock region.
SendRequestLock(p) ==
    /\ pc[p] = "req_lock"
    /\ LET e == eng[p]
       IN  IF NotRunning(e)
           THEN /\ Return(p, Err("NotRunning"))
                /\ UNCHANGED <<messageID, responseHandlers, allocated>>
           ELSE /\ messageID' = [messageID EXCEPT ![e] = NextId(@)]
                /\ id' = [id EXCEPT ![p] = messageID'[e]]
                /\ chan' = [chan EXCEPT ![p] = <<>>]
                /\ responseHandlers' =
                       [responseHandlers EXCEPT ![e] = MapPut(@, messageID'[e], p)]
                /\ allocated' = [allocated EXCEPT ![e] = Append(@, messageID'[e])]
                /\ pc' = [pc EXCEPT ![p] = "req_write"]
                /\ UNCHANGED <<eng, params, ret>>
    /\ UNCHANGED <<lspServers, spawned, mergedChan, lang, running, alive, reader,
                   notificationChan, stdin, op,
                   resolved, removals, discards, notified, calls>>

\* Whether lsp.stdin.Write can succeed: it does while the child reads its
\* stdin; once the child is gone the pipe may be broken.
WriteOutcomes(e) == IF alive[e] THEN {TRUE} ELSE {TRUE, FALSE}

\* writeMessage's check, part_001 167-169.
WriteNotRunning(e) == ~running[e]

\* The frame writeMessage writes for the call of p (part_001 111-116, 132-136).
Message(p) == [kind |-> op[p], id |-> id[p], uri |-> params[p].uri]

\* writeMessage, part_001 164-172, called by SendRequest (118) or
\* SendNotification (138): the error, or [sent |-> TRUE].
writeMessage(p, ok) ==
    LET e == eng[p]
    IN  IF WriteNotRunning(e)
        THEN /\ UNCHANGED stdin
             /\ ret' = [ret EXCEPT ![p] = Err("NotRunning")]
        ELSE /\ ok \in WriteOutcomes(e)
             /\ IF ok
                THEN /\ stdin' = [stdin EXCEPT ![e] = Message(p)]
                     /\ ret' = [ret EXCEPT ![p] = [sent |-> TRUE]]
                ELSE /\ UNCHANGED stdin
                     /\ ret' = [ret EXCEPT ![p] = Err("WriteFailed")]

\* SendRequest, part_001 118: on an error the caller goes on to 119-122 with
\* the error in ret, otherwise to the receive of 126.
WriteRequest(p, ok) ==
    /\ pc[p] = "req_write"
    /\ writeMessage(p, ok)
    /\ pc' = [pc EXCEPT ![p] = IF IsErr(ret'[p]) THEN "req_cleanup" ELSE "req_await"]
    /\ UNCHANGED <<lspServers, spawned, mergedChan, lang, running, alive, reader,
                   messageID, responseHandlers, notificationChan,
                   op, eng, id, params, chan, histVars>>

\* Faulty variant of DeleteHandler: the entry is left in the table.
DeleteHandlerForgotten(h, k) == h

\* delete(lsp.responseHandlers, id), part_001 120.
DeleteHandler(h, k) == MapDelete(h, k)

\* SendRequest, part_001 119-122: the write failed.
SendRequestCleanup(p) ==
    /\ pc[p] = "req_cleanup"
    /\ LET e == eng[p]
           k == id[p]
       IN  /\ responseHandlers' = [responseHandlers EXCEPT ![e] = DeleteHandler(@, k)]
           /\ resolved' = [resolved EXCEPT ![e] = @ \cup {k}]
           /\ removals' = [removals EXCEPT ![e][k] =
                              IF k \in DOMAIN responseHandlers[e] THEN @ + 1 ELSE @]
    /\ Return(p, ret[p])
    /\ UNCHANGED <<lspServers, spawned, mergedChan, lang, running, alive, reader,
                   messageID, notificationChan, stdin, op,
                   allocated, discards, notified, calls>>

\* SendRequest, part_001 126-127: response := <-responseChan.
SendRequestAwait(p) ==
    /\ pc[p] = "req_await"
    /\ chan[p] # <<>>
    /\ Return(p, [ok |-> Head(chan[p])])
    /\ UNCHANGED <<lspServers, spawned, mergedChan, engineVars, op, histVars>>

\* SendNotification, part_001 131-139.
WriteNotification(p, ok) ==
    /\ pc[p] = "ntf_write"
    /\ writeMessage(p, ok)
    /\ pc' = [pc EXCEPT ![p] = "returned"]
    /\ eng' = [eng EXCEPT ![p] = NoEngine]
    /\ params' = [params EXCEPT ![p] = NoParams]
    /\ UNCHANGED <<lspServers, spawned, mergedChan, lang, running, alive, reader,
                   messageID, responseHandlers, notificationChan,
                   op, id, chan, histVars>>

\* ------------------------------------------------------------- the child
\* The child exits, or closes its stdout, on its own.
ChildExit(e) ==
    /\ e \in Spawned
    /\ alive[e]
    /\ alive' = [alive EXCEPT ![e] = FALSE]
    /\ UNCHANGED <<lspServers, spawned, mergedChan, lang, running, reader,
                   messageID, responseHandlers, notificationChan, stdin,
                   procVars, histVars>>

\* Faulty variant of HandlerFor: responses are taken to arrive in request order, so
\* the frame goes to the oldest pending sink.
HandlerForOldest(e, k) ==
    LET first == CHOOSE x \in DOMAIN responseHandlers[e] :
                     \A y \in DOMAIN responseHandlers[e] : x <= y
    IN  responseHandlers[e][first]

\* ch, ok := lsp.responseHandlers[*msg.ID], part_001 219: the sink of id k.
HandlerFor(e, k) == responseHandlers[e][k]

\* Faulty variant of DispatchResponse: a frame whose id matches no sink falls through
\* to the notification branch.
DispatchResponseFallThrough(e, f) ==
    IF f.id \in DOMAIN responseHandlers[e]
    THEN /\ chan' = [chan EXCEPT ![HandlerFor(e, f.id)] = Append(@, f)]
         /\ responseHandlers' = [responseHandlers EXCEPT ![e] = MapDelete(@, f.id)]
         /\ resolved' = [resolved EXCEPT ![e] = @ \cup {f.id}]
         /\ removals' = [removals EXCEPT ![e][f.id] = @ + 1]
         /\ UNCHANGED <<notificationChan, discards, notified>>
    ELSE /\ discards' = TRUE
         /\ notificationChan' =
                IF f.method THEN [notificationChan EXCEPT ![e] = TrySend(@, f)]
                ELSE notificationChan
         /\ UNCHANGED <<chan, responseHandlers, resolved, removals, notified>>

\* readMessages, part_001 217-223: a frame with an id.
DispatchResponse(e, f) ==
    IF f.id \in DOMAIN responseHandlers[e]
    THEN /\ chan' = [chan EXCEPT ![HandlerFor(e, f.id)] = Append(@, f)]
         /\ responseHandlers' = [responseHandlers EXCEPT ![e] = MapDelete(@, f.id)]
         /\ resolved' = [resolved EXCEPT ![e] = @ \cup {f.id}]
         /\ removals' = [removals EXCEPT ![e][f.id] = @ + 1]
         /\ UNCHANGED <<notificationChan, discards, notified>>
    ELSE /\ discards' = TRUE
         /\ UNCHANGED <<chan, responseHandlers, resolved, removals,
                        notificationChan, notified>>

\* readMessages, part_001 224-231: a frame without id.
DispatchNotification(e, f) ==
    /\ IF f.method
       THEN /\ notified' = notified + 1
            /\ notificationChan' = [notificationChan EXCEPT ![e] = TrySend(@, f)]
       ELSE UNCHANGED <<notificationChan, notified>>
    /\ UNCHANGED <<chan, responseHandlers, resolved, removals, discards>>

\* readMessages, part_001 179-232: one turn of the loop on frame f, which the
\* child wrote (possibly before it went away: the pipe buffers it).
ReaderFrame(e, f) ==
    /\ reader[e] = "reading"
    /\ UNCHANGED <<lspServers, spawned, mergedChan, lang, running, alive, reader,
                   messageID, stdin, pc, op, eng, id, params, ret, allocated,
                   calls>>
    /\ IF f.id # NoId THEN DispatchResponse(e, f) ELSE DispatchNotification(e, f)

\* readMessages returns: a read error (183-186, 199-201) once the stdout is
\* closed, or the loop condition (179), an unsynchronised read of running.
ReaderEnd(e) ==
    /\ reader[e] = "reading"
    /\ ~alive[e] \/ ~running[e]
    /\ reader' = [reader EXCEPT ![e] = "ended"]
    /\ UNCHANGED <<lspServers, spawned, mergedChan, lang, running, alive,
                   messageID, responseHandlers, notificationChan, stdin,
                   procVars, histVars>>

\* The forwarder goroutines that have not returned: StartLSP starts one for
\* each engine it spawns (multi_lsp.go 55) and the range loop of
\* forwardNotifications (64) ends only when the engine's channel is closed.
LiveForwarders == {e \in Spawned : ~notificationChan[e].closed}

\* The engines that have not been shut down.
LiveEngines == {e \in Spawned : running[e]}

\* forwardNotifications, multi_lsp.go 62-71: one turn of the loop.
forwardNotifications(e) ==
    /\ e \in Spawned
    /\ notificationChan[e].buf # <<>>
    /\ notificationChan' = [notificationChan EXCEPT ![e].buf = Tail(@)]
    /\ mergedChan' = TrySend(mergedChan, Head(notificationChan[e].buf))
    /\ UNCHANGED <<lspServers, spawned, lang, running, alive, reader, messageID,
                   responseHandlers, stdin, procVars, histVars>>

\* HandleWebSocket's notification goroutine, websocket.go 347-365: one turn.
NotifyClient ==
    /\ mergedChan.buf # <<>>
    /\ mergedChan' = [mergedChan EXCEPT !.buf = Tail(@)]
    /\ UNCHANGED <<lspServers, spawned, engineVars, procVars, histVars>>

\* Frames that carry an id: responses, and requests the server initiates.
IdFrames == {f \in Frames : f.id # NoId}

\* The request path: both sessions call concurrently and the children emit
\* frames with an id.  Frames without id only touch notificationChan,
\* mergedChan and notified, which no action of the request path reads.
Next ==
    \/ \E p \in Procs, l \in Langs, ok \in BOOLEAN :
           StartLSP(p, l, ok) /\ UNCHANGED <<sessVars, hostVars>>
    \/ ShutdownAll /\ UNCHANGED <<sessVars, hostVars>>
    \/ \E p \in Procs, prm \in ParamsSet :
           RouteRequest(p, prm) /\ UNCHANGED <<sessVars, hostVars>>
    \/ \E p \in Procs, prm \in ParamsSet :
           RouteNotification(p, prm) /\ UNCHANGED <<sessVars, hostVars>>
    \/ \E p \in Procs : SendRequestLock(p) /\ UNCHANGED <<sessVars, hostVars>>
    \/ \E p \in Procs, ok \in BOOLEAN : WriteRequest(p, ok) /\ UNCHANGED <<sessVars, hostVars>>
    \/ \E p \in Procs : SendRequestCleanup(p) /\ UNCHANGED <<sessVars, hostVars>>
    \/ \E p \in Procs : SendRequestAwait(p) /\ UNCHANGED <<sessVars, hostVars>>
    \/ \E p \in Procs, ok \in BOOLEAN :
           WriteNotification(p, ok) /\ UNCHANGED <<sessVars, hostVars>>
    \/ \E p \in Procs : Done(p) /\ UNCHANGED <<sessVars, hostVars>>
    \/ \E e \in Engines : ChildExit(e) /\ UNCHANGED <<sessVars, hostVars>>
    \/ \E e \in Engines, f \in IdFrames : ReaderFrame(e, f) /\ UNCHANGED <<sessVars, hostVars>>
    \/ \E e \in Engines : ReaderEnd(e) /\ UNCHANGED <<sessVars, hostVars>>

Spec == Init /\ [][Next]_vars

\* The reader with every kind of frame, and the notification path behind it:
\* one session calls, the children emit frames with and without id.
NotifyNext ==
    \/ \E l \in Langs, ok \in BOOLEAN :
           calls < MaxNotifyCalls /\ StartLSP("s1", l, ok) /\ UNCHANGED <<sessVars, hostVars>>
    \/ ShutdownAll /\ UNCHANGED <<sessVars, hostVars>>
    \/ \E prm \in ParamsSet :
           calls < MaxNotifyCalls /\ RouteRequest("s1", prm) /\ UNCHANGED <<sessVars, hostVars>>
    \/ \E prm \in ParamsSet :
           calls < MaxNotifyCalls /\ RouteNotification("s1", prm)
               /\ UNCHANGED <<sessVars, hostVars>>
    \/ SendRequestLock("s1") /\ UNCHANGED <<sessVars, hostVars>>
    \/ \E ok \in BOOLEAN : WriteRequest("s1", ok) /\ UNCHANGED <<sessVars, hostVars>>
    \/ SendRequestCleanup("s1") /\ UNCHANGED <<sessVars, hostVars>>
    \/ SendRequestAwait("s1") /\ UNCHANGED <<sessVars, hostVars>>
    \/ \E ok \in BOOLEAN : WriteNotification("s1", ok) /\ UNCHANGED <<sessVars, hostVars>>
    \/ Done("s1") /\ UNCHANGED <<sessVars, hostVars>>
    \/ \E e \in Engines : ChildExit(e) /\ UNCHANGED <<sessVars, hostVars>>
    \/ \E e \in Engines, f \in Frames :
           /\ (f.id = NoId /\ f.method) => notified < MaxNotifs
           /\ ReaderFrame(e, f) /\ UNCHANGED <<sessVars, hostVars>>
    \/ \E e \in Engines : ReaderEnd(e) /\ UNCHANGED <<sessVars, hostVars>>
    \/ \E e \in Engines : forwardNotifications(e) /\ UNCHANGED <<sessVars, hostVars>>
    \/ NotifyClient /\ UNCHANGED <<sessVars, hostVars>>

NotifySpec == Init /\ [][NotifyNext]_vars

\* The notifications the children emit, told apart by the engine whose
\* child wrote them and by their place in the order of emission.
EmittedFrames == [id : {NoId}, method : {TRUE}, src : Engines, seq : 1..MaxEmitted]

\* The child of e emits its next notification and the reader of e reads it.
Emit(e, f) ==
    /\ f.src = e
    /\ f.seq = notified + 1
    /\ ReaderFrame(e, f)

\* The lsp_notification message, websocket.go 357-360.
LspNotification(f) == [type |-> "lsp_notification", payload |-> f]

\* HandleWebSocket's notification goroutine of session p, websocket.go
\* 347-365: one turn, with the message it writes to the client.
NotifyClientWrites(p) ==
    /\ NotifyClient
    /\ out' = [out EXCEPT ![p] = Append(@, LspNotification(Head(mergedChan.buf)))]
    /\ UNCHANGED <<currentFile, currentContent, files, handler, routed,
                   expected, ndeltas, lengthDue, verdict>>

\* The notification path on its own: engines are started, their children
\* emit notifications, the forwarders merge them and a session's goroutine
\* hands them to its client.
ForwardNext ==
    \/ \E l \in Langs, ok \in BOOLEAN : StartLSP("s1", l, ok) /\ UNCHANGED <<sessVars, hostVars>>
    \/ \E e \in Engines, f \in EmittedFrames : Emit(e, f) /\ UNCHANGED <<sessVars, hostVars>>
    \/ \E e \in Engines : forwardNotifications(e) /\ UNCHANGED <<sessVars, hostVars>>
    \/ NotifyClientWrites("s1") /\ UNCHANGED hostVars

ForwardSpec == Init /\ [][ForwardNext]_vars

\* The notifications of one child that emits more than the channels hold.
FloodFrames == [id : {NoId}, method : {TRUE}, src : {1}, seq : 1..MaxFlood]

\* The notification path under a flood: one engine whose child emits
\* notifications faster than the forwarder or the client take them.
OverflowNext ==
    \/ \E ok \in BOOLEAN :
           calls = 0 /\ StartLSP("s1", "cpp", ok) /\ UNCHANGED <<sessVars, hostVars>>
    \/ \E f \in FloodFrames : Emit(1, f) /\ UNCHANGED <<sessVars, hostVars>>
    \/ forwardNotifications(1) /\ UNCHANGED <<sessVars, hostVars>>
    \/ NotifyClientWrites("s1") /\ UNCHANGED hostVars

OverflowSpec == Init /\ [][OverflowNext]_vars

\* ---------------------------------------------------------- the write path
\* writeMessage at the grain of the engine mutex and of the pieces in which
\* one stdin.Write reaches the pipe: the header first, then the body.
Piece(p, part) == [by |-> p, kind |-> op[p], id |-> id[p], part |-> part]

\* Faulty variant of MutexFree: lsp.mu.Lock() does not wait.
MutexFreeAlways(e) == TRUE

\* lsp.mu.Lock() returns once nobody holds the mutex.
MutexFree(e) == mu[e] = Free

\* lsp.mu.Lock() in writeMessage, part_001 163.
WmLock(p) ==
    /\ pc[p] \in {"req_write", "ntf_write"}
    /\ wpos[p] = "none"
    /\ MutexFree(eng[p])
    /\ mu' = [mu EXCEPT ![eng[p]] = p]
    /\ wpos' = [wpos EXCEPT ![p] = "locked"]
    /\ UNCHANGED <<coreVars, sessVars, wire, contentLength, rpos, block, conn, process, codecVars, pipeVars, sockVars>>

\* lsp.stdin.Write, part_001 170: the header has reached the pipe.
WmHeader(p) ==
    /\ wpos[p] = "locked"
    /\ ~WriteNotRunning(eng[p])
    /\ wire' = [wire EXCEPT ![eng[p]] = Append(@, Piece(p, "header"))]
    /\ wpos' = [wpos EXCEPT ![p] = "header"]
    /\ UNCHANGED <<coreVars, sessVars, mu, contentLength, rpos, block, conn, process, codecVars, pipeVars, sockVars>>

\* defer lsp.mu.Unlock(), part_001 164.
ReleaseAfterWrite(p) == mu' = [mu EXCEPT ![eng[p]] = Free]

\* writeMessage returns, part_001 166-172: the running check failed, or the
\* Write is through (the body has reached the pipe) or has failed; the
\* mutex is released and the caller goes on as SendRequest (118-127) or
\* SendNotification (138) has it.
WmReturn(p, ok) ==
    /\ \/ wpos[p] = "header"
       \/ wpos[p] = "locked" /\ WriteNotRunning(eng[p])
    /\ IF pc[p] = "req_write" THEN WriteRequest(p, ok) ELSE WriteNotification(p, ok)
    /\ wire' = IF IsErr(ret'[p]) THEN wire
               ELSE [wire EXCEPT ![eng[p]] = Append(@, Piece(p, "body"))]
    /\ ReleaseAfterWrite(p)
    /\ wpos' = [wpos EXCEPT ![p] = "none"]
    /\ UNCHANGED <<sessVars, contentLength, rpos, block, conn, process, codecVars, pipeVars, sockVars>>

\* The params of the calls of the write path.
WriteParams == {MkParams(TRUE, TRUE, TRUE, UriPy), MkParams(TRUE, TRUE, TRUE, UriH)}

\* The write path: two sessions call concurrently, every lock region of
\* lsp.mu waiting for the mutex: SendRequest's (99-109), writeMessage's
\* (163-172), the reader's (217-222) and Shutdown's (90-95), which StartLSP
\* calls on the engine it replaces.
WriteNext ==
    \/ \E p \in Procs, l \in Langs, ok \in BOOLEAN :
           /\ calls < MaxWriteCalls
           /\ \A e \in ShutdownOnStart(l) : MutexFree(e)
           /\ StartLSP(p, l, ok) /\ UNCHANGED <<sessVars, hostVars>>
    \/ \E p \in Procs, prm \in WriteParams :
           calls < MaxWriteCalls /\ RouteRequest(p, prm)
               /\ UNCHANGED <<sessVars, hostVars>>
    \/ \E p \in Procs, prm \in WriteParams :
           calls < MaxWriteCalls /\ RouteNotification(p, prm)
               /\ UNCHANGED <<sessVars, hostVars>>
    \/ \E p \in Procs :
           /\ pc[p] = "req_lock"
           /\ MutexFree(eng[p])
           /\ SendRequestLock(p) /\ UNCHANGED <<sessVars, hostVars>>
    \/ \E p \in Procs : WmLock(p)
    \/ \E p \in Procs : WmHeader(p)
    \/ \E p \in Procs, ok \in BOOLEAN : WmReturn(p, ok)
    \/ \E p \in Procs :
           /\ pc[p] = "req_cleanup"
           /\ MutexFree(eng[p])
           /\ SendRequestCleanup(p) /\ UNCHANGED <<sessVars, hostVars>>
    \/ \E p \in Procs : SendRequestAwait(p) /\ UNCHANGED <<sessVars, hostVars>>
    \/ \E p \in Procs : Done(p) /\ UNCHANGED <<sessVars, hostVars>>
    \/ \E e \in Engines : ChildExit(e) /\ UNCHANGED <<sessVars, hostVars>>
    \/ \E e \in Engines, f \in IdFrames :
           MutexFree(e) /\ ReaderFrame(e, f) /\ UNCHANGED <<sessVars, hostVars>>

WriteSpec == Init /\ [][WriteNext]_vars

\* ------------------------------------------------------ the pipes of a child
\* The two pipes between the gateway and a child the way the kernel gives
\* them: each holds a bounded number of bytes, a write to a full pipe blocks
\* until the other end reads, and a child that is blocked writing its stdout
\* is not reading its stdin.
ChildBlocked(e) == alive[e] /\ pipeOut[e] = PipeCap

\* The child of e writes a frame to its stdout.
ChildWrites(e) ==
    /\ e \in Spawned
    /\ alive[e]
    /\ pipeOut[e] < PipeCap
    /\ pipeOut' = [pipeOut EXCEPT ![e] = @ + 1]
    /\ UNCHANGED <<coreVars, sessVars, mu, wire, wpos, contentLength, rpos, block,
                   conn, process, codecVars, sockVars, stdinFull, hand>>

\* readMessages, part_001 181-215: the reader of e reads and parses the
\* next frame; no lock is held.
ReaderTakes(e, f) ==
    /\ reader[e] = "reading"
    /\ hand[e] = NoFrame
    /\ pipeOut[e] > 0
    /\ pipeOut' = [pipeOut EXCEPT ![e] = @ - 1]
    /\ hand' = [hand EXCEPT ![e] = f]
    /\ UNCHANGED <<coreVars, sessVars, mu, wire, wpos, contentLength, rpos, block,
                   conn, process, codecVars, sockVars, stdinFull>>

\* readMessages, part_001 217-231: the frame in hand is dispatched; a frame
\* with an id under lsp.mu (218-222).
ReaderDelivers(e) ==
    /\ hand[e] # NoFrame
    /\ hand[e].id # NoId => MutexFree(e)
    /\ ReaderFrame(e, hand[e])
    /\ hand' = [hand EXCEPT ![e] = NoFrame]
    /\ UNCHANGED <<sessVars, mu, wire, wpos, contentLength, rpos, block, conn,
                   process, codecVars, sockVars, stdinFull, pipeOut>>

\* lsp.stdin.Write, part_001 170, with the header in the pipe and the child
\* not reading: the pipe is full and the Write waits for room.
StdinFills(p) ==
    /\ wpos[p] = "header"
    /\ ChildBlocked(eng[p])
    /\ ~stdinFull[eng[p]]
    /\ stdinFull' = [stdinFull EXCEPT ![eng[p]] = TRUE]
    /\ UNCHANGED <<coreVars, sessVars, mu, wire, wpos, contentLength, rpos, block,
                   conn, process, codecVars, sockVars, pipeOut, hand>>

\* The child of e, not blocked on its stdout, reads its stdin.
ChildReads(e) ==
    /\ alive[e]
    /\ ~ChildBlocked(e)
    /\ stdinFull[e]
    /\ stdinFull' = [stdinFull EXCEPT ![e] = FALSE]
    /\ UNCHANGED <<coreVars, sessVars, mu, wire, wpos, contentLength, rpos, block,
                   conn, process, codecVars, sockVars, pipeOut, hand>>

\* lsp.stdin.Write returns, part_001 170-172: there was room for the rest,
\* or the child is gone and the pipe is broken.
WriteThrough(p) == ~stdinFull[eng[p]] \/ ~alive[eng[p]]

\* The frames the children write on the pipe path: responses.
PipeFrames == {f \in IdFrames : ~f.method}

\* The params of the calls of the pipe path.
PipeParams == {MkParams(TRUE, TRUE, TRUE, UriPy)}

\* The engine between its two pipes: a session calls, StartLSP replaces the
\* engine after Shutdown (part_001 90-95) has had lsp.mu, the child writes
\* frames and the reader takes them.
PipeNext ==
    \/ \E p \in Procs, ok \in BOOLEAN :
           /\ \A e \in ShutdownOnStart("python") : MutexFree(e)
           /\ StartLSP(p, "python", ok) /\ UNCHANGED <<sessVars, hostVars>>
    \/ \E prm \in PipeParams :
           RouteRequest("s1", prm) /\ UNCHANGED <<sessVars, hostVars>>
    \/ /\ pc["s1"] = "req_lock"
       /\ MutexFree(eng["s1"])
       /\ SendRequestLock("s1") /\ UNCHANGED <<sessVars, hostVars>>
    \/ WmLock("s1")
    \/ WmHeader("s1")
    \/ StdinFills("s1")
    \/ \E ok \in BOOLEAN :
           wpos["s1"] # "none" /\ WriteThrough("s1") /\ WmReturn("s1", ok)
    \/ /\ pc["s1"] = "req_cleanup"
       /\ MutexFree(eng["s1"])
       /\ SendRequestCleanup("s1") /\ UNCHANGED <<sessVars, hostVars>>
    \/ SendRequestAwait("s1") /\ UNCHANGED <<sessVars, hostVars>>
    \/ Done("s1") /\ UNCHANGED <<sessVars, hostVars>>
    \/ \E e \in Engines : ChildWrites(e)
    \/ \E e \in Engines : ChildReads(e)
    \/ \E e \in Engines, f \in PipeFrames : ReaderTakes(e, f)
    \/ \E e \in Engines : ReaderDelivers(e)

PipeSpec == Init /\ [][PipeNext]_vars

\* ------------------------------------------------------- the frame decoder
\* The header lines a child may write before the blank line: a name and the
\* text after "name: ".
HeaderLine(name, value) == [name |-> name, value |-> value]
HeaderValues == {"2", "0", "-1", "x", "2x"}
HeaderLines ==
    {HeaderLine("Content-Length", v) : v \in HeaderValues}
        \cup {HeaderLine("Content-Type", "x")}

\* What %d of fmt.Sscanf makes of a text: the integer its longest prefix of
\* an optional sign and digits spells, the rest being left unread, or an
\* error if there is no digit.
ScanInt(v) ==
    CASE v = "2"  -> [n |-> 2]
      [] v = "2x" -> [n |-> 2]
      [] v = "0"  -> [n |-> 0]
      [] v = "-1" -> [n |-> -1]
      [] OTHER    -> Err("NoInteger")

\* fmt.Sscanf(line, "Content-Length: %d", &contentLength), part_001 192.
Sscanf(line) ==
    IF line.name = "Content-Length" THEN ScanInt(line.value) ELSE Err("NoMatch")

\* readMessages, part_001 182-194: a header line that is not the blank line.
ReadHeaderLine(e, line) ==
    /\ reader[e] = "reading"
    /\ rpos[e] = "header"
    /\ Len(block[e]) < MaxHeaderLines
    /\ block' = [block EXCEPT ![e] = Append(@, line)]
    /\ contentLength' = IF IsErr(Sscanf(line)) THEN contentLength
                        ELSE [contentLength EXCEPT ![e] = Sscanf(line).n]
    /\ UNCHANGED <<coreVars, sessVars, mu, wire, wpos, rpos, conn, process, codecVars, pipeVars, sockVars>>

\* readMessages, part_001 188-190: the blank line ends the header block.
ReadBlankLine(e) ==
    /\ reader[e] = "reading"
    /\ rpos[e] = "header"
    /\ rpos' = [rpos EXCEPT ![e] = "body"]
    /\ UNCHANGED <<coreVars, sessVars, mu, wire, wpos, contentLength, block,
                   conn, process, codecVars, pipeVars, sockVars>>

\* readMessages, part_001 181 and 197-232: the body.  make([]byte,
\* contentLength) panics on a negative length; an empty body fails
\* json.Unmarshal and the loop continues; otherwise the body, here frame f,
\* is dispatched.  The next turn starts with contentLength 0.
ReadBody(e, f) ==
    /\ reader[e] = "reading"
    /\ rpos[e] = "body"
    /\ rpos' = [rpos EXCEPT ![e] = "header"]
    /\ contentLength' = [contentLength EXCEPT ![e] = 0]
    /\ block' = [block EXCEPT ![e] = <<>>]
    /\ UNCHANGED <<sessVars, mu, wire, wpos, conn, process, codecVars, pipeVars, sockVars>>
    /\ IF contentLength[e] < 0
       THEN /\ reader' = [reader EXCEPT ![e] = "panicked"]
            /\ UNCHANGED <<lspServers, spawned, mergedChan, lang, running, alive,
                           messageID, responseHandlers, notificationChan, stdin,
                           procVars, histVars>>
       ELSE IF contentLength[e] = 0
       THEN UNCHANGED coreVars
       ELSE ReaderFrame(e, f)

\* The reader at the grain of the lines and bodies it reads from one child.
DecodeNext ==
    \/ \E ok \in BOOLEAN :
           calls = 0 /\ StartLSP("s1", "cpp", ok) /\ UNCHANGED <<sessVars, hostVars>>
    \/ \E line \in HeaderLines : ReadHeaderLine(1, line)
    \/ ReadBlankLine(1)
    \/ \E f \in Frames :
           /\ (f.id = NoId /\ f.method) => notified < MaxNotifs
           /\ ReadBody(1, f)
    \/ ChildExit(1) /\ UNCHANGED <<sessVars, hostVars>>
    \/ ReaderEnd(1) /\ UNCHANGED <<sessVars, hostVars>>

DecodeSpec == Init /\ [][DecodeNext]_vars

\* ---------------------------------------------------------- the frame codec
\* Bytes are one-character strings; CR and LF stand for the two control bytes.
CR == "CR"
LF == "LF"
CRLF == <<CR, LF>>
ContentLengthPrefix ==
    <<"C", "o", "n", "t", "e", "n", "t", "-", "L", "e", "n", "g", "t", "h", ":", " ">>

DigitChars == <<"0", "1", "2", "3", "4", "5", "6", "7", "8", "9">>

\* Faulty variant of Itoa: only the last digit is printed.
ItoaLastDigit(n) == <<DigitChars[(n % 10) + 1]>>

\* %d of fmt.Sprintf on a length: its decimal digits.
RECURSIVE Itoa(_)
Itoa(n) ==
    IF n < 10 THEN <<DigitChars[n + 1]>>
    ELSE Itoa(n \div 10) \o <<DigitChars[(n % 10) + 1]>>

\* writeMessage, part_001 159-161: the header with len(data), then data.
EncodeFrame(data) == ContentLengthPrefix \o Itoa(Len(data)) \o CRLF \o CRLF \o data

Blocked == [blocked |-> TRUE]
IsBlocked(r) == "blocked" \in DOMAIN r

\* reader.ReadString('\n'), part_001 183: the bytes up to and with the first
\* LF and what follows them; the call blocks while there is no LF.
ReadString(s) ==
    IF \E i \in 1..Len(s) : s[i] = LF
    THEN LET i == CHOOSE k \in 1..Len(s) :
                      s[k] = LF /\ \A j \in 1..(k - 1) : s[j] # LF
         IN  [line |-> SubSeq(s, 1, i), rest |-> SubSeq(s, i + 1, Len(s))]
    ELSE Blocked

IsDigit(c) == \E d \in 1..10 : DigitChars[d] = c
DigitValue(c) == (CHOOSE d \in 1..10 : DigitChars[d] = c) - 1

\* The digits a text starts with, and the number they spell.
RECURSIVE LeadingDigits(_)
LeadingDigits(s) ==
    IF s # <<>> /\ IsDigit(Head(s)) THEN <<Head(s)>> \o LeadingDigits(Tail(s))
    ELSE <<>>

RECURSIVE Atoi(_)
Atoi(ds) ==
    IF ds = <<>> THEN 0
    ELSE 10 * Atoi(SubSeq(ds, 1, Len(ds) - 1)) + DigitValue(ds[Len(ds)])

\* fmt.Sscanf(line, "Content-Length: %d", &contentLength), part_001 192, on
\* the bytes of a line, for lengths written without a sign.
SscanfLine(line) ==
    IF HasPrefix(line, ContentLengthPrefix)
       /\ LeadingDigits(TrimPrefix(line, ContentLengthPrefix)) # <<>>
    THEN [n |-> Atoi(LeadingDigits(TrimPrefix(line, ContentLengthPrefix)))]
    ELSE Err("NoMatch")

\* readMessages, part_001 182-195: the header loop on the bytes s, with the
\* length found so far.
RECURSIVE ReadHeader(_, _)
ReadHeader(s, length) ==
    LET r == ReadString(s)
    IN  IF IsBlocked(r) THEN Blocked
        ELSE IF r.line = CRLF THEN [contentLength |-> length, rest |-> r.rest]
        ELSE ReadHeader(r.rest, IF IsErr(SscanfLine(r.line)) THEN length
                                ELSE SscanfLine(r.line).n)

\* readMessages, part_001 181-201: one frame off the bytes s; io.ReadFull
\* blocks until the body is there.
ReadFrame(s) ==
    LET h == ReadHeader(s, 0)
    IN  IF IsBlocked(h) THEN Blocked
        ELSE IF Len(h.rest) < h.contentLength THEN Blocked
        ELSE [body |-> SubSeq(h.rest, 1, h.contentLength),
              rest |-> SubSeq(h.rest, h.contentLength + 1, Len(h.rest))]

\* The bodies framed: every string up to MaxBodyLen over bytes the header
\* is made of, and one body whose length takes two digits.
BodyBytes == {CR, LF, "1"}
LongBody == <<"{", "1", LF, "C", ":", " ", "1", CR, LF, "}", LF>>
Bodies == UNION {[1..n -> BodyBytes] : n \in 0..MaxBodyLen} \cup {LongBody}

\* A peer that frames as writeMessage does writes the frame of data to the
\* stdout the reader of e reads.
EchoFrame(e, data) ==
    /\ reader[e] = "reading"
    /\ Len(encoded[e]) < MaxFrames
    /\ stdout' = [stdout EXCEPT ![e] = @ \o EncodeFrame(data)]
    /\ encoded' = [encoded EXCEPT ![e] = Append(@, data)]
    /\ UNCHANGED <<coreVars, sessVars, mu, wire, wpos, contentLength, rpos, block,
                   conn, process, decoded, pipeVars, sockVars>>

\* readMessages, part_001 179-201: the reader of e takes one frame off its
\* stdout.
ReadFrameStep(e) ==
    /\ reader[e] = "reading"
    /\ ~IsBlocked(ReadFrame(stdout[e]))
    /\ decoded' = [decoded EXCEPT ![e] = Append(@, ReadFrame(stdout[e]).body)]
    /\ stdout' = [stdout EXCEPT ![e] = ReadFrame(stdout[e]).rest]
    /\ UNCHANGED <<coreVars, sessVars, mu, wire, wpos, contentLength, rpos, block,
                   conn, process, encoded, pipeVars, sockVars>>

CodecNext ==
    \/ \E ok \in BOOLEAN :
           calls = 0 /\ StartLSP("s1", "cpp", ok) /\ UNCHANGED <<sessVars, hostVars>>
    \/ \E data \in Bodies : EchoFrame(1, data)
    \/ ReadFrameStep(1)

CodecSpec == Init /\ [][CodecNext]_vars

\* ------------------------------------------------------- the document store
\* Faulty variant of SliceTo: the head ends one byte early.
SliceToShort(s, n) == SubSeq(s, 1, n - 1)

\* Go slice expressions s[:n] and s[n:] on a string.
SliceTo(s, n) == SubSeq(s, 1, n)

\* Faulty variant of SliceFrom: the tail starts one byte late.
SliceFromLate(s, n) == SubSeq(s, n + 2, Len(s))

SliceFrom(s, n) == SubSeq(s, n + 1, Len(s))

\* Faulty variant of ApplyDelta: each position is checked against the
\* content, their order is not.
ApplyDeltaUnordered(content, fromPos, toPos, insert) ==
    IF fromPos < 0 \/ toPos < 0 \/ toPos > Len(content) \/ fromPos > Len(content)
    THEN Err("InvalidRange")
    ELSE [content |-> SubSeq(content, 1, fromPos) \o insert
                          \o SubSeq(content, toPos + 1, Len(content))]

\* Faulty variant of ApplyDelta: a range that ends at the end of the content
\* is refused.
ApplyDeltaStrict(content, fromPos, toPos, insert) ==
    IF fromPos < 0 \/ toPos >= Len(content) \/ fromPos > toPos
    THEN Err("InvalidRange")
    ELSE [content |-> SliceTo(content, fromPos) \o insert \o SliceFrom(content, toPos)]

\* ApplyDelta, part_000 42-50: the new content, or the error.
ApplyDelta(content, fromPos, toPos, insert) ==
    IF fromPos < 0 \/ toPos > Len(content) \/ fromPos > toPos
    THEN Err("InvalidRange")
    ELSE [content |-> SliceTo(content, fromPos) \o insert \o SliceFrom(content, toPos)]

\* What a delta message may carry (DeltaPayload, websocket.go 321-325).
Positions == -1..(MaxLen + 1)
Inserts   == {<<>>, <<"X">>}

\* What a save message may carry besides its path (SavePayload, 327-330).
SaveContents == {<<>>, <<"z">>}

\* detectLanguage, websocket.go 582-597: path[len(path)-3:] panics on a path
\* shorter than three bytes.
detectLanguagePanics(path) == Len(path) < 3

detectLanguage(path) ==
    LET ext == SubSeq(path, Len(path) - 2, Len(path))
    IN  CASE ext = <<".", "p", "y">> -> "python"
          [] ext \in {<<".", "c", "p", "p">>, <<".", "c", "c">>,
                      <<".", "c", "x", "x">>} -> "cpp"
          [] ext = <<".", "c">> -> "c"
          [] ext \in {<<".", "h">>, <<".", "h", "p", "p">>} -> "cpp"
          [] OTHER -> "plaintext"

\* ------------------------------------------------------------- the session
\* Messages HandleWebSocket writes to the client.
ErrorMsg(m) == [type |-> "error", message |-> m]
FileOpened(path, content) ==
    [type |-> "file_opened", path |-> path, content |-> content]
FileSaved == [type |-> "file_saved", success |-> TRUE]

\* Faulty variant of DidChange: the uri lacks its scheme.
DidChangeNoScheme(file, content) ==
    [method |-> "textDocument/didChange", uri |-> file, text |-> content]

\* The arguments of the handlers' RouteNotification calls (411-417, 491-500,
\* 526-529).
DidOpen(path, content) ==
    [method |-> "textDocument/didOpen", uri |-> FileScheme \o path,
     languageId |-> detectLanguage(path), text |-> content]
DidChange(file, content) ==
    [method |-> "textDocument/didChange", uri |-> FileScheme \o file,
     text |-> content]
DidSave(path) == [method |-> "textDocument/didSave", uri |-> FileScheme \o path]

\* The params map the handlers build: an object with textDocument.uri.
RouteParams(uri) == MkParams(TRUE, TRUE, TRUE, uri)

\* The handler of p writes msgs to the client and makes no registry call.
ReplyOnly(p, msgs) ==
    /\ out' = [out EXCEPT ![p] = msgs]
    /\ routed' = [routed EXCEPT ![p] = <<>>]
    /\ UNCHANGED coreVars

\* The handler of p, handling a message of type t, writes msgs and calls
\* RouteNotification with args.
ReplyAndNotify(p, t, msgs, args) ==
    /\ out' = [out EXCEPT ![p] = msgs]
    /\ routed' = [routed EXCEPT ![p] = <<args>>]
    /\ handler' = [handler EXCEPT ![p] = [NoHandler EXCEPT !.type = t]]
    /\ RouteNotification(p, RouteParams(args.uri))

\* The dispatch loop has read a message: websocket.go 367-376.
AtReadJSON(p) == pc[p] = "idle" /\ handler[p].type = "none"

\* Faulty variant of OpenMirror: the content of the file opened before stays.
OpenMirrorKeepContent(p, path) ==
    /\ currentFile' = [currentFile EXCEPT ![p] = path]
    /\ UNCHANGED currentContent

\* websocket.go 394-397: the mirror is set to the file read.
OpenMirror(p, path) ==
    /\ currentFile' = [currentFile EXCEPT ![p] = path]
    /\ currentContent' = [currentContent EXCEPT ![p] = files[path]]

\* case "open_file", websocket.go 377-420; readOk is whether ReadFile
\* succeeds.
OpenFile(p, path, readOk) ==
    /\ AtReadJSON(p)
    /\ verdict' = [verdict EXCEPT ![p] = "none"]
    /\ IF ~readOk
       THEN /\ ReplyOnly(p, <<ErrorMsg("Failed to read file")>>)
            /\ UNCHANGED <<currentFile, currentContent, files, handler,
                           expected, ndeltas, lengthDue>>
       ELSE /\ OpenMirror(p, path)
            /\ expected' = [expected EXCEPT ![p] = files[path]]
            /\ ndeltas' = [ndeltas EXCEPT ![p] = 0]
            /\ lengthDue' = [lengthDue EXCEPT ![p] = Len(files[path])]
            /\ UNCHANGED files
            /\ IF detectLanguagePanics(path)
               THEN /\ out' = [out EXCEPT ![p] = <<FileOpened(path, files[path])>>]
                    /\ routed' = [routed EXCEPT ![p] = <<>>]
                    /\ pc' = [pc EXCEPT ![p] = "crashed"]
                    /\ UNCHANGED <<lspServers, spawned, mergedChan, engineVars,
                                   op, eng, id, params, chan, ret, histVars,
                                   handler>>
               ELSE ReplyAndNotify(p, "open_file",
                                   <<FileOpened(path, files[path])>>,
                                   DidOpen(path, files[path]))

\* The splice the specification gives for a delta on content c.
SpliceValid(c, fromPos, toPos) == 0 <= fromPos /\ fromPos <= toPos /\ toPos <= Len(c)
Splice(c, fromPos, toPos, insert) ==
    SubSeq(c, 1, fromPos) \o insert \o SubSeq(c, toPos + 1, Len(c))

\* History kept of the deltas received: whether the range of the last one
\* was valid for the mirror it met and, for a file that is open, the opened
\* content with every delta of valid range spliced in, how many those are,
\* and the length the insertions and deletions of the valid deltas add up to.
RecordDelta(p, fromPos, toPos, insert) ==
    /\ verdict' = [verdict EXCEPT
                      ![p] = IF SpliceValid(currentContent[p], fromPos, toPos)
                             THEN "valid" ELSE "invalid"]
    /\ IF currentFile[p] # <<>> /\ SpliceValid(expected[p], fromPos, toPos)
       THEN /\ expected' = [expected EXCEPT
                               ![p] = Splice(@, fromPos, toPos, insert)]
            /\ ndeltas' = [ndeltas EXCEPT ![p] = @ + 1]
       ELSE UNCHANGED <<expected, ndeltas>>
    /\ lengthDue' = IF currentFile[p] # <<>>
                        /\ SpliceValid(currentContent[p], fromPos, toPos)
                     THEN [lengthDue EXCEPT
                              ![p] = @ + Len(insert) - (toPos - fromPos)]
                     ELSE lengthDue

\* case "delta", websocket.go 473-503.
Delta(p, fromPos, toPos, insert) ==
    /\ AtReadJSON(p)
    /\ RecordDelta(p, fromPos, toPos, insert)
    /\ UNCHANGED <<currentFile, files>>
    /\ LET r == ApplyDelta(currentContent[p], fromPos, toPos, insert)
       IN  IF IsErr(r)
           THEN /\ ReplyOnly(p, <<ErrorMsg("Failed to apply delta")>>)
                /\ UNCHANGED <<currentContent, handler>>
           ELSE /\ Len(r.content) <= MaxLen
                /\ currentContent' = [currentContent EXCEPT ![p] = r.content]
                /\ ReplyAndNotify(p, "delta", <<>>,
                                  DidChange(currentFile[p], r.content))

\* Faulty variant of SaveMirror: saving the open file resynchronises the
\* mirror with what was saved.
SaveMirrorResync(p, path, content) ==
    /\ UNCHANGED currentFile
    /\ currentContent' = IF path = currentFile[p]
                         THEN [currentContent EXCEPT ![p] = content]
                         ELSE currentContent

\* case "save" assigns neither currentFile nor currentContent (505-532).
SaveMirror(p, path, content) == UNCHANGED <<currentFile, currentContent>>

\* case "save", websocket.go 505-532; writeOk is whether WriteFile succeeds.
Save(p, path, content, writeOk) ==
    /\ AtReadJSON(p)
    /\ SaveMirror(p, path, content)
    /\ verdict' = [verdict EXCEPT ![p] = "none"]
    /\ UNCHANGED <<expected, ndeltas, lengthDue>>
    /\ IF ~writeOk
       THEN /\ ReplyOnly(p, <<ErrorMsg("Failed to save file")>>)
            /\ UNCHANGED <<files, handler>>
       ELSE /\ files' = [files EXCEPT ![path] = content]
            /\ ReplyAndNotify(p, "save", <<FileSaved>>, DidSave(path))

\* RouteNotification has returned to open_file, delta or save: an error is
\* logged (418-420, 501-503, 530-532) and the loop reads the next message.
NotifyReturned(p) ==
    /\ handler[p].type \in {"open_file", "delta", "save"}
    /\ Done(p)
    /\ handler' = [handler EXCEPT ![p] = NoHandler]
    /\ UNCHANGED <<currentFile, currentContent, files, out, routed, expected,
                   ndeltas, lengthDue, verdict>>

\* The ids a client puts in lsp_request (LSPRequestPayload.ID, 332-336): 0
\* is also what a payload without id decodes to.
ClientIds == {0, 7}

\* What a response frame carries beside its id: the result member ("null"
\* when absent or null) and whether it has an error member.
Null == "null"
Results == {Null, "r"}
ResponseFrames == [id : 0..MaxId, method : {FALSE}, result : Results,
                   error : BOOLEAN]

\* lspResponse["result"] of the frame decoded into a map (555-556, 563).
ResultOf(f) == f.result

\* Faulty variant of LspResponse: the reply carries the id of the frame, the
\* one the engine's SendRequest allocated.
LspResponseEngineId(clientId, f) ==
    [type |-> "lsp_response", id |-> f.id, result |-> ResultOf(f)]

\* The lsp_response message, websocket.go 558-565.
LspResponse(clientId, f) ==
    [type |-> "lsp_response", id |-> clientId, result |-> ResultOf(f)]

\* The lsp_configured message, websocket.go 464-471.
LspConfigured(language) ==
    [type |-> "lsp_configured", success |-> TRUE, language |-> language]

\* case "lsp_request", websocket.go 534-546: up to the call of RouteRequest.
LspRequest(p, clientId, prm) ==
    /\ AtReadJSON(p)
    /\ RouteRequest(p, prm)
    /\ handler' = [handler EXCEPT ![p] = [NoHandler EXCEPT !.type = "lsp_request",
                                                         !.id = clientId]]
    /\ out' = [out EXCEPT ![p] = <<>>]
    /\ routed' = [routed EXCEPT ![p] = <<prm>>]
    /\ verdict' = [verdict EXCEPT ![p] = "none"]
    /\ UNCHANGED <<currentFile, currentContent, files, expected, ndeltas, lengthDue>>

\* case "lsp_request", websocket.go 547-565: RouteRequest has returned.
LspRequestReturned(p) ==
    /\ handler[p].type = "lsp_request"
    /\ Done(p)
    /\ out' = [out EXCEPT
                  ![p] = IF IsErr(ret[p])
                         THEN <<ErrorMsg("LSP request failed")>>
                         ELSE <<LspResponse(handler[p].id, ret[p].ok)>>]
    /\ handler' = [handler EXCEPT ![p] = NoHandler]
    /\ UNCHANGED <<currentFile, currentContent, files, routed, expected,
                   ndeltas, lengthDue, verdict>>

\* The languages a client puts in configure_lsp; "" is also what a payload
\* without language decodes to.
ConfigLanguages == Tags \cup {""}

\* The default of serverPath, websocket.go 435-446.
DefaultServerPath(language) ==
    IF language = "cpp" THEN [path |-> "clangd"]
    ELSE IF language = "python" THEN [path |-> "pylsp"]
    ELSE Err("UnknownLanguage")

\* History kept of the configure_lsp received: whether the specification
\* has it rejected before any engine is touched.
RecordConfigure(p, language, hasServerPath) ==
    verdict' = [verdict EXCEPT
                   ![p] = IF language = ""
                             \/ (~hasServerPath /\ language \notin {"cpp", "python"})
                          THEN "config_rejected" ELSE "config_accepted"]

\* case "configure_lsp", websocket.go 422-452: the checks and StartLSP;
\* hasServerPath is whether payload.ServerPath is non-empty, ok whether the
\* child starts.
ConfigureLSP(p, language, hasServerPath, ok) ==
    /\ AtReadJSON(p)
    /\ RecordConfigure(p, language, hasServerPath)
    /\ UNCHANGED <<currentFile, currentContent, files, expected, ndeltas, lengthDue>>
    /\ IF language = ""
       THEN /\ ReplyOnly(p, <<ErrorMsg("Language is required")>>)
            /\ UNCHANGED handler
       ELSE IF ~hasServerPath /\ IsErr(DefaultServerPath(language))
       THEN /\ ReplyOnly(p, <<ErrorMsg("Unknown language")>>)
            /\ UNCHANGED handler
       ELSE /\ StartLSP(p, language, ok)
            /\ routed' = [routed EXCEPT ![p] = <<>>]
            /\ IF ok
               THEN /\ out' = [out EXCEPT ![p] = <<>>]
                    /\ handler' = [handler EXCEPT
                                      ![p] = [NoHandler EXCEPT
                                                 !.type = "configure_lsp",
                                                 !.language = language,
                                                 !.stage = "started"]]
               ELSE /\ out' = [out EXCEPT ![p] = <<ErrorMsg("Failed to start LSP")>>]
                    /\ UNCHANGED handler

\* MultiLSPManager.SendRequest(language, ...), multi_lsp.go 103-113, up to
\* the call of lsp.SendRequest.
SendRequestTo(p, language) ==
    /\ pc[p] = "idle"
    /\ op' = [op EXCEPT ![p] = "request"]
    /\ IF Lookup(language) = NoEngine
       THEN Return(p, Err("NoEngine"))
       ELSE /\ pc' = [pc EXCEPT ![p] = "req_lock"]
            /\ eng' = [eng EXCEPT ![p] = Lookup(language)]
            /\ params' = [params EXCEPT ![p] = NoParams]
            /\ UNCHANGED <<id, chan, ret>>
    /\ UNCHANGED <<lspServers, spawned, mergedChan, engineVars, histVars>>

\* MultiLSPManager.SendNotification(language, ...), multi_lsp.go 116-126, up
\* to the call of lsp.SendNotification, made by a caller whose previous call
\* has returned.
SendNotificationTo(p, language) ==
    /\ pc[p] = "returned"
    /\ op' = [op EXCEPT ![p] = "notification"]
    /\ IF Lookup(language) = NoEngine
       THEN Return(p, Err("NoEngine"))
       ELSE /\ pc' = [pc EXCEPT ![p] = "ntf_write"]
            /\ eng' = [eng EXCEPT ![p] = Lookup(language)]
            /\ params' = [params EXCEPT ![p] = NoParams]
            /\ ret' = [ret EXCEPT ![p] = NoRet]
            /\ UNCHANGED <<id, chan>>
    /\ UNCHANGED <<lspServers, spawned, mergedChan, engineVars, histVars>>

\* Faulty variant of InitializeAnswered: the initialized notification does
\* not wait for the outcome of the initialize request.
InitializeAnsweredAlways(r) == TRUE

\* InitializeLSP, multi_lsp.go 91-93: the initialize request returned no
\* error, that is, a frame with its id was read.
InitializeAnswered(r) == ~IsErr(r)

\* InitializeLSP, multi_lsp.go 74-92: the initialize request is sent.
InitializeRequest(p) ==
    /\ handler[p].type = "configure_lsp"
    /\ handler[p].stage = "started"
    /\ SendRequestTo(p, handler[p].language)
    /\ handler' = [handler EXCEPT ![p].stage = "initialize"]
    /\ UNCHANGED <<currentFile, currentContent, files, out, routed, expected,
                   ndeltas, lengthDue, verdict>>

\* InitializeLSP, multi_lsp.go 91-97, and websocket.go 459-462: the
\* initialize request has returned; on an error the handler reports it,
\* otherwise the initialized notification is sent.
InitializeReturned(p) ==
    /\ handler[p].type = "configure_lsp"
    /\ handler[p].stage = "initialize"
    /\ pc[p] = "returned"
    /\ UNCHANGED <<currentFile, currentContent, files, routed, expected,
                   ndeltas, lengthDue, verdict>>
    /\ IF InitializeAnswered(ret[p])
       THEN /\ SendNotificationTo(p, handler[p].language)
            /\ handler' = [handler EXCEPT ![p].stage = "initialized"]
            /\ UNCHANGED out
       ELSE /\ Done(p)
            /\ out' = [out EXCEPT ![p] = <<ErrorMsg("Failed to initialize LSP")>>]
            /\ handler' = [handler EXCEPT ![p] = NoHandler]

\* InitializeLSP, multi_lsp.go 95-99, and websocket.go 459-471: the
\* initialized notification has returned.
ConfigureReturned(p) ==
    /\ handler[p].type = "configure_lsp"
    /\ handler[p].stage = "initialized"
    /\ Done(p)
    /\ out' = [out EXCEPT
                  ![p] = IF IsErr(ret[p])
                         THEN <<ErrorMsg("Failed to initialize LSP")>>
                         ELSE <<LspConfigured(handler[p].language)>>]
    /\ handler' = [handler EXCEPT ![p] = NoHandler]
    /\ UNCHANGED <<currentFile, currentContent, files, routed, expected,
                   ndeltas, lengthDue, verdict>>

\* History kept of a message the specification has answered by a protocol
\* error.
RecordProtocolError(p) == verdict' = [verdict EXCEPT ![p] = "protocol_error"]

\* Faulty variant of DefaultCase: a message of unknown type is ignored.
DefaultCaseSilent(p) == ReplyOnly(p, <<>>)

\* default:, websocket.go 567-569.
DefaultCase(p) == ReplyOnly(p, <<ErrorMsg("Unknown message type")>>)

\* A message whose type no case names (websocket.go 376, 567-569).
UnknownType(p) ==
    /\ AtReadJSON(p)
    /\ RecordProtocolError(p)
    /\ DefaultCase(p)
    /\ UNCHANGED <<currentFile, currentContent, files, handler, expected, ndeltas, lengthDue>>

\* A message of a known type whose payload json.Unmarshal rejects: each case
\* answers by sendError and continue (379-383, 424-427, 475-478, 507-510,
\* 536-539).
InvalidPayload(p) ==
    /\ AtReadJSON(p)
    /\ RecordProtocolError(p)
    /\ ReplyOnly(p, <<ErrorMsg("Invalid payload")>>)
    /\ UNCHANGED <<currentFile, currentContent, files, handler, expected, ndeltas, lengthDue>>

\* The client closes its WebSocket.  Nothing of the server runs on that: the
\* read loop learns of it at its next ReadJSON (websocket.go 367-372).
ClientClose(p) ==
    /\ conn[p] = "open"
    /\ conn' = [conn EXCEPT ![p] = "closed"]
    /\ UNCHANGED <<coreVars, sessVars, mu, wire, wpos, contentLength, rpos, block, process, codecVars, pipeVars, sockVars>>

\* websocket.go 368-372: ReadJSON fails on the closed socket, the loop breaks
\* and HandleWebSocket returns.
ReadJSONError(p) ==
    /\ AtReadJSON(p)
    /\ conn[p] = "closed"
    /\ conn' = [conn EXCEPT ![p] = "ended"]
    /\ UNCHANGED <<coreVars, sessVars, mu, wire, wpos, contentLength, rpos, block, process, codecVars, pipeVars, sockVars>>

\* What session p does by itself in an lsp_request on a socket that may
\* close: the steps of its handler and of the call it makes.
LspRequestSteps(p) ==
    \/ \E clientId \in ClientIds, prm \in ParamsSet :
           /\ calls < MaxGatewayCalls
           /\ conn[p] = "open"
           /\ LspRequest(p, clientId, prm)
           /\ UNCHANGED hostVars
    \/ LspRequestReturned(p) /\ UNCHANGED hostVars
    \/ SendRequestLock(p) /\ UNCHANGED <<sessVars, hostVars>>
    \/ \E ok \in BOOLEAN : WriteRequest(p, ok) /\ UNCHANGED <<sessVars, hostVars>>
    \/ SendRequestCleanup(p) /\ UNCHANGED <<sessVars, hostVars>>
    \/ SendRequestAwait(p) /\ UNCHANGED <<sessVars, hostVars>>
    \/ ReadJSONError(p)

\* A session issuing requests to a child that may or may not answer, while
\* its client may go away.
CancelNext ==
    \/ \E l \in Langs, ok \in BOOLEAN :
           calls = 0 /\ StartLSP("s2", l, ok) /\ UNCHANGED <<sessVars, hostVars>>
    \/ LspRequestSteps("s1")
    \/ ClientClose("s1")
    \/ \E e \in Engines : ChildExit(e) /\ UNCHANGED <<sessVars, hostVars>>
    \/ \E e \in Engines, f \in ResponseFrames :
           ReaderFrame(e, f) /\ UNCHANGED <<sessVars, hostVars>>

CancelSpec == Init /\ [][CancelNext]_vars

\* The same with the session's goroutine scheduled fairly; what the child
\* writes, and when, is its own affair.
CancelFairSpec == CancelSpec /\ WF_vars(LspRequestSteps("s1"))

\* ------------------------------------------------------- the client socket
\* c.WriteJSON at the grain of its call and its return.  HandleWebSocket has
\* no lock around its writes: its sync.Mutex (websocket.go 344) is taken
\* for currentContent only (394-397, 480-488).
SocketLocked(p) == FALSE

\* A task enters c.WriteJSON on the socket of p.
WriteJSONBegin(p, task) ==
    /\ task \notin writers[p]
    /\ ~SocketLocked(p)
    /\ writers' = [writers EXCEPT ![p] = @ \cup {task}]
    /\ UNCHANGED <<mu, wire, wpos, contentLength, rpos, block, conn, process,
                   codecVars, pipeVars, fwd, lost, inbox>>

\* c.WriteJSON returns to the task.
WriteJSONEnd(p, task) ==
    /\ task \in writers[p]
    /\ writers' = [writers EXCEPT ![p] = @ \ {task}]
    /\ UNCHANGED <<coreVars, sessVars, mu, wire, wpos, contentLength, rpos, block,
                   conn, process, codecVars, pipeVars, fwd, lost, inbox>>

\* The notification goroutine of p, websocket.go 347-361: a notification is
\* taken off the merged channel and c.WriteJSON is called with it.
ForwarderWrites(p) ==
    /\ fwd[p] = "running"
    /\ NotifyClientWrites(p)
    /\ WriteJSONBegin(p, "forwarder")

\* The dispatch loop of p is between two writes of its own.
LoopFree(p) == "loop" \notin writers[p]

\* The dispatch loop and the notification goroutine of one session, with
\* engines whose children emit notifications.
SockNext ==
    \/ \E ok \in BOOLEAN :
           calls = 0 /\ StartLSP("s2", "python", ok) /\ UNCHANGED <<sessVars, hostVars>>
    \/ \E e \in Engines, f \in EmittedFrames : Emit(e, f) /\ UNCHANGED <<sessVars, hostVars>>
    \/ \E e \in Engines : forwardNotifications(e) /\ UNCHANGED <<sessVars, hostVars>>
    \/ ForwarderWrites("s1")
    \/ WriteJSONEnd("s1", "forwarder")
    \/ \E path \in Paths, readOk \in BOOLEAN :
           LoopFree("s1") /\ OpenFile("s1", path, readOk) /\ WriteJSONBegin("s1", "loop")
    \/ LoopFree("s1") /\ UnknownType("s1") /\ WriteJSONBegin("s1", "loop")
    \/ WriteJSONEnd("s1", "loop")
    \/ \E ok \in BOOLEAN :
           LoopFree("s1") /\ WriteNotification("s1", ok) /\ UNCHANGED <<sessVars, hostVars>>
    \/ LoopFree("s1") /\ NotifyReturned("s1") /\ UNCHANGED hostVars

SockSpec == Init /\ [][SockNext]_vars

\* The outcomes of c.WriteJSON on the socket of p: nil on an open socket; on
\* a socket the client has closed the write may still be taken by the
\* kernel; once HandleWebSocket has returned the write fails.
WriteJSONOutcomes(p) ==
    IF conn[p] = "open" THEN {TRUE}
    ELSE IF conn[p] = "closed" THEN {TRUE, FALSE}
    ELSE {FALSE}

\* The notification goroutine of p, websocket.go 347-365: one turn of its
\* loop.  It ends on a failed write only (361-363); the end of the read
\* loop (367-372) does not stop it.
ForwarderTurn(p, ok) ==
    /\ fwd[p] = "running"
    /\ ok \in WriteJSONOutcomes(p)
    /\ IF conn[p] = "open"
       THEN /\ NotifyClientWrites(p)
            /\ UNCHANGED <<fwd, lost>>
       ELSE /\ NotifyClient
            /\ UNCHANGED sessVars
            /\ lost' = lost + 1
            /\ fwd' = [fwd EXCEPT ![p] = IF ok THEN "running" ELSE "returned"]
    /\ UNCHANGED <<mu, wire, wpos, contentLength, rpos, block, conn, process,
                   codecVars, pipeVars, writers, inbox>>

\* Two sessions on the merged channel: the client of s1 goes away, the
\* client of s2 stays connected, and the children emit notifications.
ReconnectNext ==
    \/ \E ok \in BOOLEAN :
           calls = 0 /\ StartLSP("s2", "python", ok) /\ UNCHANGED <<sessVars, hostVars>>
    \/ \E e \in Engines, f \in EmittedFrames : Emit(e, f) /\ UNCHANGED <<sessVars, hostVars>>
    \/ \E e \in Engines : forwardNotifications(e) /\ UNCHANGED <<sessVars, hostVars>>
    \/ \E p \in Procs, ok \in BOOLEAN : ForwarderTurn(p, ok)
    \/ ClientClose("s1")
    \/ ReadJSONError("s1")

ReconnectSpec == Init /\ [][ReconnectNext]_vars

\* The messages a client sends, by their type: an lsp_request, and a message
\* of a type no case names.
ClientMessages == {"lsp_request", "unknown"}

\* The lsp_request messages among those not yet read.
RequestsQueued(p) ==
    Cardinality({i \in DOMAIN inbox[p].queue : inbox[p].queue[i] = "lsp_request"})

\* The client of p sends a message on its open socket.
ClientSends(p, m) ==
    /\ conn[p] = "open"
    /\ inbox[p].sent < MaxInbox
    /\ m = "lsp_request" => calls + RequestsQueued(p) < MaxCalls
    /\ inbox' = [inbox EXCEPT ![p] = [sent |-> @.sent + 1, queue |-> Append(@.queue, m)]]
    /\ UNCHANGED <<coreVars, sessVars, mu, wire, wpos, contentLength, rpos, block,
                   conn, process, codecVars, pipeVars, writers, fwd, lost>>

\* c.ReadJSON(&msg), websocket.go 367-376: the loop is back at its top and
\* takes the next message of type m.
ReadJSON(p, m) ==
    /\ AtReadJSON(p)
    /\ inbox[p].queue # <<>>
    /\ Head(inbox[p].queue) = m
    /\ inbox' = [inbox EXCEPT ![p].queue = Tail(@)]
    /\ UNCHANGED <<mu, wire, wpos, contentLength, rpos, block, conn, process,
                   codecVars, pipeVars, writers, fwd, lost>>

\* What the goroutine of HandleWebSocket does for session p: the read loop,
\* its handlers and the calls they make.
DispatchSteps(p) ==
    \/ \E prm \in PipeParams : ReadJSON(p, "lsp_request") /\ LspRequest(p, 7, prm)
    \/ ReadJSON(p, "unknown") /\ UnknownType(p)
    \/ LspRequestReturned(p) /\ UNCHANGED hostVars
    \/ SendRequestLock(p) /\ UNCHANGED <<sessVars, hostVars>>
    \/ \E ok \in BOOLEAN : WriteRequest(p, ok) /\ UNCHANGED <<sessVars, hostVars>>
    \/ SendRequestCleanup(p) /\ UNCHANGED <<sessVars, hostVars>>
    \/ SendRequestAwait(p) /\ UNCHANGED <<sessVars, hostVars>>
    \/ inbox[p].queue = <<>> /\ ReadJSONError(p)

\* A session whose client sends messages and may go away, on engines whose
\* children may or may not answer.
DispatchNext ==
    \/ \E ok \in BOOLEAN :
           calls = 0 /\ StartLSP("s2", "python", ok) /\ UNCHANGED <<sessVars, hostVars>>
    \/ \E m \in ClientMessages : ClientSends("s1", m)
    \/ DispatchSteps("s1")
    \/ ClientClose("s1")
    \/ \E e \in Engines : ChildExit(e) /\ UNCHANGED <<sessVars, hostVars>>
    \/ \E e \in Engines, f \in ResponseFrames :
           ReaderFrame(e, f) /\ UNCHANGED <<sessVars, hostVars>>

\* The session's goroutine is scheduled fairly; what the child writes, and
\* when, is its own affair.
DispatchFairSpec == Init /\ [][DispatchNext]_vars /\ WF_vars(DispatchSteps("s1"))

\* ------------------------------------------------------------------ main
\* main.go 52: app.Listen returns and log.Fatal prints its error and calls
\* os.Exit(1).  os.Exit does not run deferred calls, so the ShutdownAll
\* deferred at main.go 29 is not made; the children are other processes and
\* stay as they are.
ListenReturns ==
    /\ process = "serving"
    /\ process' = "exited"
    /\ UNCHANGED <<coreVars, sessVars, mu, wire, wpos, contentLength, rpos, block,
                   conn, codecVars, pipeVars, sockVars>>

\* SIGINT: main.go installs no handler (no signal.Notify in src/), so the Go
\* runtime ends the process at once, no deferred call being made.
Sigint ==
    /\ process = "serving"
    /\ process' = "interrupted"
    /\ UNCHANGED <<coreVars, sessVars, mu, wire, wpos, contentLength, rpos, block,
                   conn, codecVars, pipeVars, sockVars>>

Terminated == process \in {"exited", "interrupted"}

\* One session with its document mirror, over the registry: the engines are
\* started by another session's configure_lsp.
SessionNext ==
    \/ \E path \in Paths, readOk \in BOOLEAN :
           OpenFile("s1", path, readOk) /\ UNCHANGED hostVars
    \/ \E fromPos \in Positions, toPos \in Positions, insert \in Inserts :
           Delta("s1", fromPos, toPos, insert) /\ UNCHANGED hostVars
    \/ \E path \in Paths, content \in SaveContents, writeOk \in BOOLEAN :
           Save("s1", path, content, writeOk) /\ UNCHANGED hostVars
    \/ NotifyReturned("s1") /\ UNCHANGED hostVars
    \/ \E l \in Langs, ok \in BOOLEAN : StartLSP("s2", l, ok) /\ UNCHANGED <<sessVars, hostVars>>
    \/ \E ok \in BOOLEAN : WriteNotification("s1", ok) /\ UNCHANGED <<sessVars, hostVars>>

SessionSpec == Init /\ [][SessionNext]_vars

\* One session configuring engines and relaying requests to them, over the
\* registry, the engines, their children and their readers.
GatewayNext ==
    \/ \E path \in Paths, readOk \in BOOLEAN :
           calls < MaxGatewayCalls /\ OpenFile("s1", path, readOk)
               /\ UNCHANGED hostVars
    \/ NotifyReturned("s1") /\ UNCHANGED hostVars
    \/ UnknownType("s1") /\ UNCHANGED hostVars
    \/ InvalidPayload("s1") /\ UNCHANGED hostVars
    \/ \E clientId \in ClientIds, prm \in ParamsSet :
           calls < MaxGatewayCalls /\ LspRequest("s1", clientId, prm)
               /\ UNCHANGED hostVars
    \/ LspRequestReturned("s1") /\ UNCHANGED hostVars
    \/ \E language \in ConfigLanguages, hasServerPath \in BOOLEAN, ok \in BOOLEAN :
           calls < MaxGatewayCalls /\ ConfigureLSP("s1", language, hasServerPath, ok)
               /\ UNCHANGED hostVars
    \/ InitializeRequest("s1") /\ UNCHANGED hostVars
    \/ InitializeReturned("s1") /\ UNCHANGED hostVars
    \/ ConfigureReturned("s1") /\ UNCHANGED hostVars
    \/ SendRequestLock("s1") /\ UNCHANGED <<sessVars, hostVars>>
    \/ \E ok \in BOOLEAN : WriteRequest("s1", ok) /\ UNCHANGED <<sessVars, hostVars>>
    \/ SendRequestCleanup("s1") /\ UNCHANGED <<sessVars, hostVars>>
    \/ SendRequestAwait("s1") /\ UNCHANGED <<sessVars, hostVars>>
    \/ \E ok \in BOOLEAN : WriteNotification("s1", ok) /\ UNCHANGED <<sessVars, hostVars>>
    \/ \E e \in Engines : ChildExit(e) /\ UNCHANGED <<sessVars, hostVars>>
    \/ \E e \in Engines, f \in ResponseFrames :
           ReaderFrame(e, f) /\ UNCHANGED <<sessVars, hostVars>>
    \/ \E e \in Engines : ReaderEnd(e) /\ UNCHANGED <<sessVars, hostVars>>

GatewaySpec == Init /\ [][GatewayNext]_vars

\* Language detection at work: after one attempt to start an engine, a client
\* sends one lsp_request whose textDocument.uri is any of the bounded paths,
\* and the request is refused or written to the engine found for it.
DetectParams == {RouteParams(path) : path \in BoundedPaths}

DetectNext ==
    \/ \E l \in Langs, ok \in BOOLEAN :
           calls = 0 /\ StartLSP("s2", l, ok) /\ UNCHANGED <<sessVars, hostVars>>
    \/ \E prm \in DetectParams :
           calls = 1 /\ LspRequest("s1", 7, prm) /\ UNCHANGED hostVars
    \/ LspRequestReturned("s1") /\ UNCHANGED hostVars
    \/ SendRequestLock("s1") /\ UNCHANGED <<sessVars, hostVars>>
    \/ \E ok \in BOOLEAN : WriteRequest("s1", ok) /\ UNCHANGED <<sessVars, hostVars>>

DetectSpec == Init /\ [][DetectNext]_vars

\* The server from start to termination: sessions are served until Listen
\* returns or the process is interrupted.
ExitNext ==
    \/ process = "serving" /\ GatewayNext
    \/ ListenReturns
    \/ Sigint

ExitSpec == Init /\ [][ExitNext]_vars

\* ================================================================= claims
Range(q) == {q[i] : i \in DOMAIN q}

InCall(p) == pc[p] \in {"req_write", "req_cleanup", "req_await"}

\* C1: each engine allocates every request id strictly greater than all ids
\* it allocated before, so no id is used twice in the engine's lifetime and
\* two calls in flight on one engine never hold the same id.
C1_IdsStrictlyIncrease ==
    /\ \A e \in Engines : \A i, j \in DOMAIN allocated[e] :
           i < j => allocated[e][i] < allocated[e][j]
    /\ \A p, q \in Procs :
           (p # q /\ InCall(p) /\ InCall(q) /\ eng[p] = eng[q]) => id[p] # id[q]

\* Two sessions hold requests on the same engine at once, with the two ids
\* the engine has allocated.
C1_Witness ==
    \E p, q \in Procs :
        /\ p # q /\ InCall(p) /\ InCall(q) /\ eng[p] = eng[q]
        /\ Len(allocated[eng[p]]) = 2
        /\ {id[p], id[q]} = Range(allocated[eng[p]])

\* C2: the pending table holds an entry for id k exactly when request k has
\* been issued and has neither been answered nor failed, and the entry of
\* each issued id is removed exactly once, by whichever event comes.
C2_PendingTable ==
    \A e \in Engines : \A k \in 0..MaxId :
        /\ k \in DOMAIN responseHandlers[e]
               <=> (k \in Range(allocated[e]) /\ k \notin resolved[e])
        /\ removals[e][k] = IF k \in resolved[e] THEN 1 ELSE 0

\* A request whose write failed has returned its error and its entry is
\* gone, while another request of the same engine is still pending.
C2_Witness ==
    \E p \in Procs, e \in Engines, k \in 1..MaxId :
        /\ pc[p] = "returned" /\ op[p] = "request"
        /\ ret[p] \in {Err("WriteFailed"), Err("NotRunning")}
        /\ k \in resolved[e] /\ removals[e][k] = 1
        /\ k \notin DOMAIN responseHandlers[e]
        /\ DOMAIN responseHandlers[e] # {}

\* C3: a response frame whose id matches a pending entry goes, whole, into
\* the sink of the call that allocated the id and into no other sink, the
\* entry is removed, and the call that wakes returns that frame, whatever
\* the order of the responses.
C3_SinkInv ==
    /\ \A e \in Engines : \A k \in DOMAIN responseHandlers[e] :
           LET p == responseHandlers[e][k]
           IN  InCall(p) /\ eng[p] = e /\ id[p] = k
    /\ \A p \in Procs : chan[p] # <<>> =>
           InCall(p) /\ Len(chan[p]) = 1 /\ chan[p][1].id = id[p]

C3_Delivery ==
    \A e \in Engines, f \in IdFrames :
        (f.id \in DOMAIN responseHandlers[e] /\ ReaderFrame(e, f)) =>
            LET p == responseHandlers[e][f.id]
            IN  /\ chan'[p] = <<f>>
                /\ \A q \in Procs \ {p} : chan'[q] = chan[q]
                /\ f.id \notin DOMAIN responseHandlers'[e]

C3_Wake ==
    \A p \in Procs :
        (pc[p] = "req_await" /\ pc'[p] # "req_await") =>
            /\ pc'[p] = "returned"
            /\ chan[p] # <<>>
            /\ ret'[p] = [ok |-> chan[p][1]]
            /\ ret'[p].ok.id = id[p]

C3_ResponseCorrelation ==
    /\ []C3_SinkInv
    /\ [][C3_Delivery /\ C3_Wake]_vars

\* The later request has got its response and returned while the earlier
\* request of the same engine still waits.
C3_Witness ==
    \E p, q \in Procs :
        /\ pc[p] = "returned" /\ IsResponse(ret[p])
        /\ pc[q] = "req_await" /\ chan[q] = <<>>
        /\ ret[p].ok.id \in Range(allocated[eng[q]])
        /\ id[q] < ret[p].ok.id

\* C4: a frame that carries an id with no pending entry is discarded: the
\* pending table, every sink and the notification channels stay as they are
\* and the reader goes on reading.
C4_UnmatchedDiscarded ==
    [][\A e \in Engines, f \in Frames :
          (f.id # NoId /\ f.id \notin DOMAIN responseHandlers[e] /\ ReaderFrame(e, f))
              => /\ UNCHANGED <<responseHandlers, chan, notificationChan, mergedChan>>
                 /\ reader'[e] = "reading"]_vars

\* The reader has dropped a frame of an engine that has answered a request
\* and holds a notification, and it is still reading.
C4_Witness ==
    /\ discards
    /\ \E e \in Engines :
           /\ reader[e] = "reading"
           /\ resolved[e] # {}
           /\ notificationChan[e].buf # <<>>

\* C5: once the reader of an engine has ended, no SendRequest of that engine
\* is left waiting on an empty sink with its entry still in the pending
\* table: the reader has failed every outstanding request before it ended.
C5_ReaderEndFailsPending ==
    \A p \in Procs :
        (pc[p] = "req_await" /\ reader[eng[p]] = "ended") =>
            /\ chan[p] # <<>>
            /\ id[p] \notin DOMAIN responseHandlers[eng[p]]

\* C6: a SendRequest that finds its engine shut down returns NotRunning, and
\* that step allocates no id, inserts no pending entry and writes nothing to
\* any child.
C6_NotRunningNoEffect ==
    [][\A p \in Procs :
          (pc[p] = "req_lock" /\ ~running[eng[p]] /\ pc'[p] # "req_lock")
              => /\ pc'[p] = "returned"
                 /\ ret'[p] = Err("NotRunning")
                 /\ UNCHANGED <<messageID, responseHandlers, allocated, stdin>>]_vars

\* A request has returned NotRunning from an engine that was shut down, and
\* no engine has allocated an id or been written to.
C6_Witness ==
    \E p \in Procs :
        /\ pc[p] = "returned" /\ op[p] = "request" /\ ret[p] = Err("NotRunning")
        /\ spawned >= 1
        /\ TotalAllocated = 0
        /\ \A e \in Engines : stdin[e] = NoMessage /\ messageID[e] = 0

\* C7: an engine that has been shut down has an empty pending table, no
\* SendRequest waiting on an empty sink, and a closed notification channel.
C7_ShutdownDropsPending ==
    \A e \in Spawned : ~running[e] =>
        /\ DOMAIN responseHandlers[e] = {}
        /\ \A p \in Procs : (pc[p] = "req_await" /\ eng[p] = e) => chan[p] # <<>>
        /\ notificationChan[e].closed

\* C8: at most one engine per language is registered and running; an engine
\* that is not the registered one of its language has been shut down and its
\* child killed; a StartLSP that starts an engine for a language registers
\* it in place of the previous one, which it kills; and a routed call is
\* handed to, and a message written to, only the engine registered for its
\* language at that moment.
C8_RegistryInv ==
    /\ \A e1, e2 \in Spawned :
           (lang[e1] = lang[e2] /\ running[e1] /\ running[e2]) => e1 = e2
    /\ \A e \in Spawned :
           lspServers[lang[e]] # e => (~running[e] /\ ~alive[e])
    /\ \A l \in Langs :
           lspServers[l] # NoEngine =>
               (lspServers[l] \in Spawned /\ lang[lspServers[l]] = l)

C8_Replace ==
    spawned' # spawned =>
        LET new == spawned'
            l   == lang'[new]
            old == lspServers[l]
        IN  /\ lspServers'[l] = new
            /\ running'[new] /\ alive'[new]
            /\ old # NoEngine => (~running'[old] /\ ~alive'[old])

C8_SentToRegistered ==
    /\ \A e \in Engines : stdin'[e] # stdin[e] => lspServers[lang[e]] = e
    /\ \A p \in Procs : (pc[p] = "idle" /\ eng'[p] # NoEngine) =>
           \E l \in Langs : eng'[p] = lspServers[l]

C8_OneEnginePerLanguage ==
    /\ []C8_RegistryInv
    /\ [][C8_Replace /\ C8_SentToRegistered]_vars

\* The second engine started for a language is registered and has been
\* written a request; the first is dead and was never written to.
C8_Witness ==
    \E e1, e2 \in Spawned :
        /\ e1 < e2 /\ lang[e1] = lang[e2]
        /\ lspServers[lang[e2]] = e2
        /\ ~alive[e1] /\ ~running[e1] /\ stdin[e1] = NoMessage
        /\ stdin[e2].kind = "request"

\* C9: whatever an engine's child has been written carries a uri whose
\* detected language is the engine's language, and one step writes to at
\* most one engine.
C9_WrittenLanguage ==
    \A e \in Engines : stdin[e] # NoMessage =>
        detectLanguageForLSP(TrimPrefix(stdin[e].uri, FileScheme)) = lang[e]

C9_OneEngineWritten ==
    \A e1, e2 \in Engines :
        (stdin'[e1] # stdin[e1] /\ stdin'[e2] # stdin[e2]) => e1 = e2

C9_RoutedToDetectedLanguage ==
    /\ []C9_WrittenLanguage
    /\ [][C9_OneEngineWritten]_vars

\* Engines of both languages are registered and running; one has been
\* written a message and the other nothing.
C9_Witness ==
    \E e1, e2 \in Spawned :
        /\ lang[e1] # lang[e2]
        /\ lspServers[lang[e1]] = e1 /\ lspServers[lang[e2]] = e2
        /\ running[e1] /\ running[e2]
        /\ stdin[e1] # NoMessage /\ stdin[e2] = NoMessage

C10_Fails(p, kind) ==
    /\ pc'[p] = "returned"
    /\ ret'[p] = Err(kind)
    /\ UNCHANGED <<stdin, messageID, responseHandlers, allocated>>

\* C10: a routed call returns BadParams when params is no object holding
\* textDocument.uri as a string, UnknownLanguage when the uri's suffix maps to
\* no language, NoEngine when no engine is registered for the language, and
\* in these cases writes nothing and allocates no id; otherwise it goes on
\* to the engine.
C10_RouteErrors ==
    [][\A p \in Procs, kind \in {"request", "notification"}, prm \in ParamsSet :
          Route(p, kind, prm) =>
              LET bad == ~(prm.isMap /\ prm.hasTextDocument /\ prm.hasUri)
                  l   == detectLanguageForLSP(TrimPrefix(prm.uri, FileScheme))
              IN  IF bad THEN C10_Fails(p, "BadParams")
                  ELSE IF l = "" THEN C10_Fails(p, "UnknownLanguage")
                  ELSE IF lspServers[l] = NoEngine THEN C10_Fails(p, "NoEngine")
                  ELSE pc'[p] # "returned"]_vars

\* One session has got BadParams and the other NoEngine while an engine of
\* another language is registered and running, untouched.
C10_Witness ==
    \E p, q \in Procs :
        /\ pc[p] = "returned" /\ ret[p] = Err("BadParams")
        /\ pc[q] = "returned" /\ ret[q] = Err("NoEngine")
        /\ \E e \in Spawned : running[e] /\ lspServers[lang[e]] = e
        /\ TotalAllocated = 0
        /\ \A e \in Engines : stdin[e] = NoMessage

\* C11: while a file is open the mirror equals the content open_file read
\* with the deltas of valid range received since spliced in, left to right.
C11_MirrorIsFold ==
    \A p \in Procs : currentFile[p] # <<>> => currentContent[p] = expected[p]

\* Two deltas have been applied to the opened file and the mirror differs
\* from the file.
C11_Witness ==
    /\ currentFile["s1"] # <<>>
    /\ ndeltas["s1"] >= 2
    /\ currentContent["s1"] # files[currentFile["s1"]]

\* C12: on every mirror content the session reaches and every fromPos,
\* toPos and insert a delta may carry, ApplyDelta returns
\* C[:fromPos] + insert + C[toPos:] when 0 <= fromPos <= toPos <= len(C) and
\* the InvalidRange error, with no content, otherwise.
C12_ApplyDeltaContract ==
    \A p \in Procs, fromPos \in Positions, toPos \in Positions, insert \in Inserts :
        LET c == currentContent[p]
            r == ApplyDelta(c, fromPos, toPos, insert)
        IN  IF 0 <= fromPos /\ fromPos <= toPos /\ toPos <= Len(c)
            THEN r = [content |-> SubSeq(c, 1, fromPos) \o insert
                                      \o SubSeq(c, toPos + 1, Len(c))]
            ELSE r = Err("InvalidRange")

\* A delta has been applied that brought the mirror of an open file to its
\* greatest length.
C12_Witness ==
    /\ handler["s1"].type = "delta"
    /\ currentFile["s1"] # <<>>
    /\ Len(currentContent["s1"]) = MaxLen

\* The dispatch loop of p, at its read, handles a delta in this step.
DeltaStep(p) ==
    /\ AtReadJSON(p)
    /\ verdict'[p] # "none"
    /\ verdict'[p] # verdict[p] \/ out'[p] # out[p] \/ pc'[p] # pc[p]

\* C13: a delta whose range is invalid for the mirror writes exactly one
\* error message to the client, leaves currentFile and the mirror as they
\* are, makes no registry call, writes to no engine, and leaves the loop
\* ready for the next message.
C13_InvalidDelta ==
    [][\A p \in Procs :
          (DeltaStep(p) /\ verdict'[p] = "invalid") =>
              /\ Len(out'[p]) = 1 /\ out'[p][1].type = "error"
              /\ currentFile'[p] = currentFile[p]
              /\ currentContent'[p] = currentContent[p]
              /\ routed'[p] = <<>>
              /\ UNCHANGED <<calls, stdin>>
              /\ pc'[p] = "idle" /\ handler'[p].type = "none"]_vars

\* After a delta was applied to the open file, an invalid delta has been
\* answered with an error and the loop is at its read again.
C13_Witness ==
    /\ verdict["s1"] = "invalid"
    /\ out["s1"] = <<ErrorMsg("Failed to apply delta")>>
    /\ currentFile["s1"] # <<>>
    /\ ndeltas["s1"] >= 1
    /\ pc["s1"] = "idle" /\ handler["s1"].type = "none"

\* C14: while no file has been opened the mirror stays empty: a delta in
\* that state is refused.
C14_IdleDeltaRejected ==
    \A p \in Procs : currentFile[p] = <<>> => currentContent[p] = <<>>

\* C15: a delta of valid range makes exactly one RouteNotification call,
\* textDocument/didChange with uri file://<currentFile> and as text the whole
\* mirror as it is right after the delta, which for an open file is the
\* opened content with all deltas so far spliced in.
C15_DidChangeCarriesMirror ==
    [][\A p \in Procs :
          (DeltaStep(p) /\ verdict'[p] = "valid") =>
              /\ Len(routed'[p]) = 1
              /\ routed'[p][1].method = "textDocument/didChange"
              /\ routed'[p][1].uri = FileScheme \o currentFile'[p]
              /\ routed'[p][1].text = currentContent'[p]
              /\ currentFile'[p] # <<>> => routed'[p][1].text = expected'[p]
              /\ out'[p] = <<>>
              /\ calls' = calls + 1]_vars

\* With ab opened, the delta 1, 1, "X" has routed a didChange with text aXb,
\* which was written to the python engine.
C15_Witness ==
    /\ currentFile["s1"] = PathPy
    /\ routed["s1"] = <<[method |-> "textDocument/didChange",
                         uri |-> FileScheme \o PathPy,
                         text |-> <<"a", "X", "b">>]>>
    /\ lspServers["python"] # NoEngine
    /\ stdin[lspServers["python"]].kind = "notification"
    /\ stdin[lspServers["python"]].uri = FileScheme \o PathPy
    /\ handler["s1"].type = "delta"
    /\ ret["s1"] = [sent |-> TRUE]

\* C16: an open_file whose read succeeds sets currentFile to the path and
\* the mirror to the content read, whatever the mirror was, and writes
\* file_opened with that path and content; when the didOpen route returns an
\* error the loop reads on with the mirror as it is.
C16_Opened ==
    \A p \in Procs, path \in Paths :
        (AtReadJSON(p) /\ OpenFile(p, path, TRUE)) =>
            /\ currentFile'[p] = path
            /\ currentContent'[p] = files[path]
            /\ out'[p] = <<[type |-> "file_opened", path |-> path,
                            content |-> files[path]]>>

C16_RouteFailureKept ==
    \A p \in Procs :
        (/\ handler[p].type = "open_file" /\ pc[p] = "returned"
         /\ IsErr(ret[p]) /\ pc'[p] # "returned") =>
            /\ pc'[p] = "idle" /\ handler'[p].type = "none"
            /\ currentFile'[p] = currentFile[p]
            /\ currentContent'[p] = currentContent[p]
            /\ out'[p] = out[p]

C16_OpenFile == [][C16_Opened /\ C16_RouteFailureKept]_vars

\* After a delta on one file another file has been opened, its didOpen
\* could not be routed, and the loop is at its read with the new mirror.
C16_Witness ==
    /\ currentFile["s1"] = PathH
    /\ currentContent["s1"] = files[PathH]
    /\ out["s1"] = <<FileOpened(PathH, files[PathH])>>
    /\ calls = 3
    /\ pc["s1"] = "idle" /\ handler["s1"].type = "none"

\* C17: a save, whether it succeeds or fails and whatever it carries, leaves
\* currentFile and the mirror as they are.
C17_SaveKeepsMirror ==
    [][\A p \in Procs, path \in Paths, content \in SaveContents, writeOk \in BOOLEAN :
          (AtReadJSON(p) /\ Save(p, path, content, writeOk)) =>
              /\ currentFile'[p] = currentFile[p]
              /\ currentContent'[p] = currentContent[p]]_vars

\* The open file has been saved with other content than the mirror holds,
\* and no delta has been applied.
C17_Witness ==
    /\ out["s1"] = <<FileSaved>>
    /\ currentFile["s1"] # <<>>
    /\ ndeltas["s1"] = 0
    /\ files[currentFile["s1"]] # currentContent["s1"]

\* ---------------------------------------------------------------------- C18
\* The step in which the lsp_request handler of p, its RouteRequest having
\* returned, writes its reply.
LspReplyStep(p) ==
    /\ handler[p].type = "lsp_request"
    /\ handler'[p].type = "none"

\* C18: for every lsp_request that the routed engine answers with a result,
\* the gateway replies with one lsp_response whose id is the client's id from
\* the request, not the id the engine's SendRequest allocated, and whose
\* result is the result member of the engine's response frame.
C18_LspResponse ==
    [][\A p \in Procs :
          (LspReplyStep(p) /\ IsResponse(ret[p]) /\ ~ret[p].ok.error)
          => out'[p] = <<[type |-> "lsp_response", id |-> handler[p].id,
                          result |-> ret[p].ok.result]>>]_vars

\* The client asked with id 7, the engine allocated id 2 and answered it with
\* result r, and the reply carries 7 and r.
C18_Witness ==
    /\ out["s1"] = <<[type |-> "lsp_response", id |-> 7, result |-> "r"]>>
    /\ \E e \in Spawned : allocated[e] = <<1, 2>> /\ 2 \in resolved[e]
    /\ handler["s1"].type = "none"

\* ---------------------------------------------------------------------- C19
\* C19: when the engine answers a routed lsp_request with a JSON-RPC error
\* response (a frame with error and no result), the gateway sends the client
\* a message of type error and no lsp_response for that request.
C19_ErrorResponseBecomesError ==
    [][\A p \in Procs :
          (LspReplyStep(p) /\ IsResponse(ret[p]) /\ ret[p].ok.error
               /\ ret[p].ok.result = Null)
          => /\ Len(out'[p]) = 1
             /\ out'[p][1].type = "error"]_vars

\* ---------------------------------------------------------------------- C20
\* The step in which the dispatch loop of p takes a configure_lsp the
\* specification rejects, or one it accepts.
ConfigureStep(p, v) ==
    /\ AtReadJSON(p)
    /\ verdict'[p] = v
    /\ sessVars' # sessVars \/ calls' # calls

\* A configure_lsp with an empty language, or with an empty serverPath and a
\* language other than cpp or python, is answered with an error and no engine
\* is started or replaced.
C20_Rejected ==
    \A p \in Procs :
        ConfigureStep(p, "config_rejected")
        => /\ Len(out'[p]) = 1
           /\ out'[p][1].type = "error"
           /\ handler'[p].type = "none"
           /\ UNCHANGED <<lspServers, spawned, lang, running, alive, reader, calls>>

\* An accepted configure_lsp goes on to InitializeLSP only when StartLSP
\* started a child; otherwise it is answered with an error.
C20_Started ==
    \A p \in Procs :
        ConfigureStep(p, "config_accepted")
        => IF spawned' = spawned + 1
           THEN /\ handler'[p].type = "configure_lsp"
                /\ handler'[p].stage = "started"
                /\ lspServers'[handler'[p].language] = spawned'
                /\ out'[p] = <<>>
           ELSE /\ handler'[p].type = "none"
                /\ out'[p] = <<ErrorMsg("Failed to start LSP")>>

\* The initialized notification is sent only once the initialize request has
\* returned a frame, the one with the id it allocated, and is the only
\* notification the handler writes to the engine.
C20_InitializedAfterResponse ==
    \A p \in Procs :
        /\ (handler[p].type = "configure_lsp" /\ handler[p].stage # "initialized"
                /\ handler'[p].stage = "initialized")
           => /\ IsResponse(ret[p])
              /\ LET e == lspServers[handler[p].language]
                 IN  /\ e # NoEngine
                     /\ allocated[e] # <<>>
                     /\ ret[p].ok.id = allocated[e][Len(allocated[e])]
                     /\ ret[p].ok.id \in resolved[e]
        /\ (handler[p].type = "configure_lsp" /\ stdin' # stdin
                /\ \E e \in Spawned : stdin'[e] # stdin[e]
                                      /\ stdin'[e].kind = "notification")
           => handler[p].stage = "initialized"

\* lsp_configured, with success and the language asked for, is written only
\* by a handler whose initialized notification was written.
C20_Configured ==
    \A p \in Procs :
        (out'[p] # out[p] /\ out'[p] # <<>> /\ out'[p][1].type = "lsp_configured")
        => /\ handler[p].type = "configure_lsp"
           /\ handler[p].stage = "initialized"
           /\ ret[p] = [sent |-> TRUE]
           /\ out'[p] = <<[type |-> "lsp_configured", success |-> TRUE,
                           language |-> handler[p].language]>>

\* C20: configure_lsp with an empty language, or with an empty serverPath and
\* a language other than cpp or python, replies with an error and starts or
\* replaces no engine; otherwise lsp_configured{success: true, language} is
\* sent only after StartLSP succeeded and the initialize request got its
\* response, and the initialized notification is written to the engine only
\* after that initialize response was received.
C20_ConfigureLSP ==
    [][C20_Rejected /\ C20_Started /\ C20_InitializedAfterResponse
           /\ C20_Configured]_vars

\* python is configured: the engine answered the initialize request, the
\* initialized notification is on its stdin and lsp_configured was sent.
C20_Witness ==
    /\ out["s1"] = <<[type |-> "lsp_configured", success |-> TRUE,
                      language |-> "python"]>>
    /\ lspServers["python"] # NoEngine
    /\ stdin[lspServers["python"]].kind = "notification"
    /\ 1 \in resolved[lspServers["python"]]
    /\ handler["s1"].type = "none"

\* ---------------------------------------------------------------------- C21
\* The step in which the dispatch loop of p takes a message of unknown type
\* or with a payload that does not parse.
ProtocolErrorStep(p) ==
    /\ AtReadJSON(p)
    /\ verdict'[p] = "protocol_error"
    /\ sessVars' # sessVars

\* The step in which RouteRequest, called for an lsp_request of p, fails in
\* routing: no language detected or no engine registered for it.
RoutingFailureStep(p) ==
    /\ AtReadJSON(p)
    /\ handler'[p].type = "lsp_request"
    /\ pc'[p] = "returned"

\* What a message answered by an error leaves as it is: the session's file
\* and mirror, the registry and the engines.
C21_NothingChanged ==
    UNCHANGED <<currentFile, currentContent, files, lspServers, spawned,
                mergedChan, engineVars>>

\* C21: a client message with an unknown type, an unparsable payload, or a
\* routing failure in lsp_request produces a single error message to the
\* client, changes neither the session state nor the registry, and does not
\* end the session: the dispatch loop goes on to read the next message.
C21_ProtocolErrors ==
    [][\A p \in Procs :
          /\ ProtocolErrorStep(p)
             => /\ Len(out'[p]) = 1
                /\ out'[p][1].type = "error"
                /\ C21_NothingChanged
                /\ AtReadJSON(p)'
          /\ RoutingFailureStep(p)
             => /\ IsErr(ret'[p])
                /\ out'[p] = <<>>
                /\ C21_NothingChanged
          /\ (LspReplyStep(p) /\ IsErr(ret[p]))
             => /\ Len(out'[p]) = 1
                /\ out'[p][1].type = "error"
                /\ C21_NothingChanged
                /\ AtReadJSON(p)']_vars

\* With a.py open, an lsp_request for it has failed in routing, no engine
\* being registered for python, and was answered by an error; the loop is at
\* its read and the file is still open.
C21_Witness ==
    /\ currentFile["s1"] = PathPy
    /\ currentContent["s1"] = <<"a", "b">>
    /\ out["s1"] = <<ErrorMsg("LSP request failed")>>
    /\ lspServers["python"] = NoEngine
    /\ AtReadJSON("s1")

\* ---------------------------------------------------------------------- C22
\* The frames of engine e in a sequence of frames, and their places in the
\* order of emission.
OfEngine(q, e) == SelectSeq(q, LAMBDA f : f.src = e)
Increasing(q) == \A i \in 1..Len(q), j \in 1..Len(q) : i < j => q[i].seq < q[j].seq
Payloads(msgs) == [i \in 1..Len(msgs) |-> msgs[i].payload]

\* C22: within one engine, the notifications that reach the merged channel
\* appear there in the order the server emitted them: what the client was
\* handed, then what the merged channel holds, then what the engine's own
\* channel holds, are in the order of emission.
C22_OrderWithinEngine ==
    \A e \in Engines :
        Increasing(OfEngine(Payloads(out["s1"]), e)
                   \o OfEngine(mergedChan.buf, e)
                   \o OfEngine(notificationChan[e].buf, e))

\* Two engines: the first emitted notifications 1 and 3, the second
\* notification 2; the merged channel holds 2 before 1, and 1 before 3.
C22_Witness ==
    /\ Len(mergedChan.buf) = 3
    /\ mergedChan.buf[1].seq = 2
    /\ mergedChan.buf[2].seq = 1
    /\ mergedChan.buf[3].seq = 3
    /\ mergedChan.buf[1].src # mergedChan.buf[2].src
    /\ mergedChan.buf[2].src = mergedChan.buf[3].src

\* ---------------------------------------------------------------------- C23
\* Neither channel ever holds more than 100 frames.
C23_Bounded ==
    /\ Len(mergedChan.buf) <= 100
    /\ \A e \in Engines : Len(notificationChan[e].buf) <= 100

\* The reader of e reads a notification while the engine's channel is full:
\* the notification is dropped, the queue is kept, the reader reads on and
\* the client is told nothing.
C23_ReaderDrops ==
    \A e \in Engines :
        (notified' = notified + 1 /\ reader[e] = "reading"
             /\ Len(notificationChan[e].buf) = 100)
        => /\ notificationChan'[e] = notificationChan[e]
           /\ reader'[e] = "reading"
           /\ UNCHANGED <<mergedChan, out>>

\* The forwarder of e takes a notification while the merged channel is full:
\* the notification is dropped, the merged queue is kept, the forwarder has
\* taken the frame off the engine's channel and the client is told nothing.
C23_ForwarderDrops ==
    \A e \in Engines :
        (Len(notificationChan'[e].buf) < Len(notificationChan[e].buf)
             /\ Len(mergedChan.buf) = 100)
        => /\ notificationChan'[e].buf = Tail(notificationChan[e].buf)
           /\ UNCHANGED <<mergedChan, out>>

\* C23: the per-engine notification channel and the merged channel never
\* hold more than 100 frames; when either is full its producer does not
\* block: the arriving notification is dropped, the frames already queued
\* are kept, and nothing is reported to the client.
C23_BoundedDropNewest ==
    []C23_Bounded /\ [][C23_ReaderDrops /\ C23_ForwarderDrops]_vars

\* The child has emitted 101 notifications and none was forwarded: the
\* engine's channel holds the first hundred, the reader has dropped the last
\* and reads on.
C23_Witness ==
    /\ notified = 101
    /\ Len(notificationChan[1].buf) = 100
    /\ notificationChan[1].buf[1].seq = 1
    /\ notificationChan[1].buf[100].seq = 100
    /\ mergedChan.buf = <<>>
    /\ out["s1"] = <<>>
    /\ reader[1] = "reading"

\* ---------------------------------------------------------------------- C24
\* Every body on a child's stdin follows directly the header of its own
\* frame.
C24_WholeFrames ==
    \A e \in Engines :
        \A i \in 1..Len(wire[e]) :
            wire[e][i].part = "body"
            => /\ i > 1
               /\ wire[e][i - 1] = [wire[e][i] EXCEPT !.part = "header"]

\* The mutex of an engine is held only inside writeMessage, never by a
\* caller that waits for its response.
C24_HeldOnlyWriting ==
    \A e \in Engines, p \in Procs :
        mu[e] = p => /\ pc[p] \in {"req_write", "ntf_write"}
                     /\ pc[p] # "req_await"
                     /\ eng[p] = e
                     /\ wpos[p] # "none"

\* No caller writes a piece to a child's stdin while the frame of another
\* caller is partly written there.
C24_NoInterleaving ==
    \A e \in Engines, p \in Procs :
        (wire'[e] # wire[e] /\ wire'[e][Len(wire'[e])].by = p)
        => \A q \in Procs \ {p} : ~(wpos[q] = "header" /\ eng[q] = e)

\* C24: concurrent SendRequest and SendNotification calls on one engine
\* write their frames to the child's stdin one whole frame (header plus
\* body) at a time, never interleaved, and the engine mutex is never held by
\* a caller while it waits for its response.
C24_WritesSerialised ==
    [](C24_WholeFrames /\ C24_HeldOnlyWriting) /\ [][C24_NoInterleaving]_vars

\* One session waits for the response to its request, whose frame is whole
\* on the child's stdin, while the other session holds the mutex of the same
\* engine and has written the header of its notification.
C24_Witness ==
    \E e \in Spawned :
        /\ pc["s1"] = "req_await"
        /\ eng["s1"] = e
        /\ mu[e] = "s2"
        /\ wpos["s2"] = "header"
        /\ Len(wire[e]) = 3
        /\ wire[e][1].by = "s1" /\ wire[e][1].part = "header"
        /\ wire[e][2].by = "s1" /\ wire[e][2].part = "body"
        /\ wire[e][3].by = "s2" /\ wire[e][3].part = "header"
        /\ wire[e][3].kind = "notification"

\* ---------------------------------------------------------------------- C25
\* A header block the specification accepts: it has a Content-Length, and
\* every Content-Length in it is a non-negative integer.
C25_Integer(v) == v \in {"0", "2"}
C25_WellFormed(b) ==
    /\ \E i \in 1..Len(b) : b[i].name = "Content-Length"
    /\ \A i \in 1..Len(b) : b[i].name = "Content-Length" => C25_Integer(b[i].value)

\* C25: the frame decoder fails with MalformedHeader, ending the reader,
\* when a header block contains no Content-Length, when the declared length
\* is negative, or when the value is not an integer; it never treats such a
\* block as a frame with an empty body and never proceeds to allocate or
\* read a body for it.
C25_MalformedHeaderEndsReader ==
    \A e \in Engines : rpos[e] = "body" => C25_WellFormed(block[e])

\* ---------------------------------------------------------------------- C26
\* The awaiter of session p is cancelled: its client has closed the socket
\* while its request is outstanding.
C26_Cancelled(p) ==
    /\ conn[p] = "closed"
    /\ pc[p] = "req_await"
    /\ id[p] \in DOMAIN responseHandlers[eng[p]]

\* C26: if a request's awaiter is cancelled (the client gave up or its
\* WebSocket closed while the request was outstanding), the pending-table
\* entry for that id is removed, and a response arriving later for that id
\* is discarded on arrival with the session and engine remaining healthy.
\* Stated for the removal: a cancelled awaiter's entry does not stay.
C26_CancelRemovesEntry ==
    \A p \in Procs : C26_Cancelled(p) ~> ~C26_Cancelled(p)

\* ---------------------------------------------------------------------- C27
\* C27: when the server process terminates (SIGINT, or Listen returning),
\* ShutdownAll has run first: every registered engine's child has been
\* killed before the process exits.
C27_ShutdownAllBeforeExit ==
    Terminated =>
        \A l \in Tags : lspServers[l] # NoEngine => ~alive[lspServers[l]]

\* ---------------------------------------------------------------------- C28
\* The registry holds no engine although engines have been started: only
\* ShutdownAll empties it, and no StartLSP has succeeded since.
C28_Cleared ==
    /\ spawned > 0
    /\ \A l \in Tags : lspServers[l] = NoEngine

\* ShutdownAll leaves every engine that was registered not running, its
\* child dead, and the registry empty.
C28_ShutsDownAll ==
    ShutdownAll =>
        /\ \A l \in Tags :
               lspServers[l] # NoEngine =>
                   ~running'[lspServers[l]] /\ ~alive'[lspServers[l]]
        /\ C28_Cleared'

\* A routed call made while the registry is cleared fails before reaching any
\* engine; kinds gives the errors allowed for params that name a language and
\* for params that name none.
C28_RouteFails(named, unnamed) ==
    C28_Cleared =>
        \A p \in Procs, kind \in {"request", "notification"}, prm \in ParamsSet :
            Route(p, kind, prm) =>
                /\ pc'[p] = "returned"
                /\ ret'[p] \in (IF IsErr(extractLanguageFromParams(prm))
                                THEN unnamed ELSE named)
                /\ UNCHANGED <<stdin, messageID, responseHandlers, allocated>>

\* C28, as the code has it: after ShutdownAll every engine that was
\* registered has been shut down (running is false, child killed) and the
\* registry is empty, so until StartLSP is called again every RouteRequest or
\* RouteNotification fails: with NoEngine when its params name a language,
\* with BadParams or UnknownLanguage, as before, when they name none.
C28_ShutdownAll ==
    [][/\ C28_ShutsDownAll
       /\ C28_RouteFails({Err("NoEngine")},
                         {Err("BadParams"), Err("UnknownLanguage")})]_vars

\* C28 as stated: after ShutdownAll every later RouteRequest or
\* RouteNotification fails with NoEngine.
C28_EveryRouteNoEngine ==
    [][/\ C28_ShutsDownAll
       /\ C28_RouteFails({Err("NoEngine")}, {Err("NoEngine")})]_vars

\* Two engines were registered and running; both are shut down, their
\* children dead, the registry is empty and a routed call has got NoEngine.
C28_Witness ==
    /\ C28_Cleared
    /\ spawned = 2 /\ lang[1] # lang[2]
    /\ \A e \in Spawned : ~running[e] /\ ~alive[e]
    /\ \E p \in Procs : pc[p] = "returned" /\ ret[p] = Err("NoEngine")

\* ---------------------------------------------------------------------- C29
\* path ends in the extension ext, character by character.
C29_EndsIn(path, ext) ==
    /\ Len(path) >= Len(ext)
    /\ \A i \in 1..Len(ext) : path[Len(path) - Len(ext) + i] = ext[i]

\* The policy as the specification words it.
C29_Policy(path) ==
    IF C29_EndsIn(path, <<".", "p", "y">>) THEN "python"
    ELSE IF \E ext \in {<<".", "c">>, <<".", "c", "c">>, <<".", "c", "p", "p">>,
                        <<".", "c", "x", "x">>, <<".", "h">>,
                        <<".", "h", "p", "p">>} : C29_EndsIn(path, ext)
         THEN "cpp"
    ELSE ""

\* The path of the lsp_request session p has routed.
C29_Path(p) == TrimPrefix(routed[p][1].uri, FileScheme)

\* C29: detectLanguageForLSP maps every path ending in .py to python, every
\* path ending in .c, .cc, .cpp, .cxx, .h or .hpp to cpp, and every other
\* path to no language, for all paths over a bounded alphabet; and the routed
\* request fares accordingly: it is refused for want of a language exactly
\* when the policy gives none, and otherwise goes to no engine but one of the
\* policy's language.
C29_DetectionPolicy ==
    \A p \in Procs :
        (handler[p].type = "lsp_request" /\ routed[p] # <<>>) =>
            LET l == C29_Policy(C29_Path(p))
            IN  /\ detectLanguageForLSP(C29_Path(p)) = l
                /\ l = "" <=> (pc[p] = "returned" /\ ret[p] = Err("UnknownLanguage"))
                /\ eng[p] # NoEngine => lang[eng[p]] = l

\* A request for a path ending in .hpp awaits the answer of the cpp engine.
C29_Witness ==
    /\ handler["s1"].type = "lsp_request"
    /\ routed["s1"] # <<>>
    /\ C29_EndsIn(C29_Path("s1"), <<".", "h", "p", "p">>)
    /\ pc["s1"] = "req_await"
    /\ lang[eng["s1"]] = "cpp"

\* ---------------------------------------------------------------------- C30
\* C30: for every readable path, the textDocument/didOpen fired by open_file
\* carries as languageId the language the detection policy gives for that
\* path (python for .py; cpp for .c, .cc, .cpp, .cxx, .h, .hpp), and computing
\* it never crashes the session, including for paths shorter than three
\* characters.
C30_DidOpenLanguageId ==
    \A p \in Procs :
        /\ pc[p] # "crashed"
        /\ (/\ routed[p] # <<>>
            /\ routed[p][1].method = "textDocument/didOpen"
            /\ C29_Policy(TrimPrefix(routed[p][1].uri, FileScheme)) # "")
           => routed[p][1].languageId
                  = C29_Policy(TrimPrefix(routed[p][1].uri, FileScheme))

\* ---------------------------------------------------------------------- C31
\* C31: after open_file and any sequence of accepted deltas, the mirror's
\* length equals the length of the opened content plus the sum of the
\* inserted lengths minus the sum of the deleted lengths (toPos - fromPos) of
\* all deltas applied since open_file; rejected deltas contribute nothing.
C31_MirrorLength ==
    \A p \in Procs :
        currentFile[p] # <<>> => Len(currentContent[p]) = lengthDue[p]

\* Two deltas have been applied to the open file, one of them deleting, and
\* the last delta received was rejected.
C31_Witness ==
    /\ currentFile["s1"] # <<>>
    /\ ndeltas["s1"] >= 2
    /\ Len(currentContent["s1"]) < Len(files[currentFile["s1"]])
    /\ verdict["s1"] = "invalid"

\* ---------------------------------------------------------------------- C32
\* C32: every registry forwarder task terminates once its engine has been
\* shut down or replaced, so the number of live forwarder tasks never
\* exceeds the number of live engines after any sequence of StartLSP and
\* ShutdownAll calls.
C32_ForwardersEnd ==
    /\ \A e \in LiveForwarders : e \in LiveEngines
    /\ Cardinality(LiveForwarders) <= Cardinality(LiveEngines)

\* ---------------------------------------------------------------------- C33
\* C33: frame round trip: for every body up to the maximum length, the bytes
\* produced by the encoder (Content-Length: <N> CRLF CRLF followed by the
\* body) are decoded by the reader into exactly one frame whose body equals
\* the original, and a sequence of encoded frames decodes to the same
\* sequence of bodies: what has been decoded is the bodies encoded, in order,
\* as far as the reader has got; unread bytes always hold a whole frame; and
\* with no byte unread every body has been decoded.
C33_RoundTrip ==
    \A e \in Engines :
        /\ Len(decoded[e]) <= Len(encoded[e])
        /\ decoded[e] = SubSeq(encoded[e], 1, Len(decoded[e]))
        /\ stdout[e] = <<>> <=> Len(decoded[e]) = Len(encoded[e])
        /\ stdout[e] # <<>> => ~IsBlocked(ReadFrame(stdout[e]))

\* Two frames were written before the first was read, the long body and a
\* body of a bare LF, and both have been decoded.
C33_Witness ==
    /\ encoded[1] = <<LongBody, <<LF>>>>
    /\ decoded[1] = encoded[1]
    /\ stdout[1] = <<>>

\* ---------------------------------------------------------------------- C34
\* C34: every engine present in the registry is running in every state
\* outside a StartLSP or ShutdownAll critical section; in particular, after
\* a StartLSP(L, ...) whose spawn fails while an engine for L was already
\* registered, the registry does not keep the already shut down previous
\* engine under L.  StartLSP and ShutdownAll are single steps here, so every
\* state is outside their critical sections.
C34_RegisteredRunning ==
    \A l \in Tags : lspServers[l] # NoEngine => running[lspServers[l]]

\* ---------------------------------------------------------------------- C35
\* C35: a frame sent by the server that carries both an id and a method (a
\* server-initiated request) is never delivered to the awaiter of a client
\* request: an awaiter of request k only ever receives a response to request
\* k, even when the server-chosen id equals a currently pending client id.
\* No sink of a caller holds, and no SendRequest returns, a frame with a
\* method.
C35_NoServerRequestDelivered ==
    \A p \in Procs :
        /\ \A i \in DOMAIN chan[p] : ~chan[p][i].method
        /\ "ok" \in DOMAIN ret[p] => ~ret[p].ok.method

\* ---------------------------------------------------------------------- C36
\* C36: the engine never deadlocks on its mutex: when a writer is blocked
\* inside writeMessage because the child is not reading its stdin, the
\* reader can still deliver responses and Shutdown can still kill the child,
\* so the child is never left blocked on a full stdout pipe while the
\* gateway is blocked on a full stdin pipe.  No state has a writer waiting
\* in Write on the full stdin of a child that is blocked on its full stdout
\* while the reader, a frame with an id in hand, waits for the mutex the
\* writer holds.
C36_NoMutexDeadlock ==
    \A p \in Procs, e \in Engines :
        ~ /\ wpos[p] = "header"
          /\ eng[p] = e
          /\ stdinFull[e]
          /\ ChildBlocked(e)
          /\ hand[e] # NoFrame
          /\ hand[e].id # NoId
          /\ ~MutexFree(e)

\* ---------------------------------------------------------------------- C37
\* C37: writes to one client WebSocket are never concurrent: the session's
\* notification-forwarder task and its dispatch loop (replies and error
\* messages) never execute a write on the same connection at the same time.
C37_OneWriter ==
    \A p \in Procs : Cardinality(writers[p]) <= 1

\* ---------------------------------------------------------------------- C38
\* C38: every notification taken from the merged channel is written to the
\* currently connected client: the forwarder task of a session whose
\* WebSocket has closed stops consuming from the merged channel, so after a
\* client reconnects no notification is consumed and lost by the forwarder
\* of an earlier, closed session.
C38_NoneLost ==
    conn["s2"] = "open" => lost = 0

\* ---------------------------------------------------------------------- C39
\* C39: the session dispatch loop stays responsive while a request is
\* outstanding: every client message received after an lsp_request or
\* configure_lsp is eventually processed (and a WebSocket close is
\* eventually observed) even if the language server never answers that
\* request.
C39_Responsive ==
    \A p \in Procs :
        /\ (inbox[p].queue # <<>>) ~> (inbox[p].queue = <<>>)
        /\ (conn[p] = "closed") ~> (conn[p] = "ended")

\* ---------------------------------------------------------------------- C40
\* C40: a routed request or notification is never written to, or left
\* pending on, an engine that is no longer the registered engine for its
\* language: when StartLSP replaces the engine for L concurrently with a
\* RouteRequest for L (lookup under the shared lock, send after releasing
\* it), the request either goes to the new engine or returns an error, and
\* never blocks forever on the replaced engine.  No caller waits for its
\* response, with nothing in its sink, on an engine that StartLSP has
\* replaced by another.
C40_PendingOnRegistered ==
    \A p \in Procs :
        (pc[p] = "req_await" /\ chan[p] = <<>>)
            => lspServers[lang[eng[p]]] \in {eng[p], NoEngine}

=============================================================================
